---- MODULE Spec2Model ----
(***************************************************************************)
(* A model of the xray-qa analysis code: the best-candidate selection of   *)
(* bonefinder.select_qof, the scan and joint comparisons of scan.py, the    *)
(* batch comparison of distance.main and its statistics, the gap            *)
(* measurement of measure.py, the pairing of the annotation files in        *)
(* distance.main and the annotation GUI of gui.py.                          *)
(***************************************************************************)
EXTENDS Integers, Sequences, FiniteSets, TLC

VARIABLES
    \* ---- bonefinder.select_qof ----
    lines,               \* the data rows of the QOF table (lines[1:] of the file)
    sets,                \* the parsed records (patient_visit, pts_file, qof_sum)
    qof_pc,              \* position in select_qof
    idx,                 \* loop index of "for idx, s in enumerate(sets)" (0-based)
    it_patient_visit,    \* key of the group being scanned
    it_max_qof_sum,      \* best score string of the group so far
    it_max_qof_sum_idx,  \* 0-based index of the best record of the group so far
    copies,              \* the shutil.copy calls made so far, in order
    out_dir,             \* selection_out_dir: destination name -> source file copied last
    \* ---- a comparison call of scan.py ----
    roi_size,            \* (WIDTH, HEIGHT) of the configuration
    self,                \* the receiver: a Joint or a Scan
    other,               \* the argument: a Joint or a Scan
    size,                \* the canvas size (image.size) of a Joint comparison
    call,                \* the method called, None before the call
    result,              \* what the call returned, or the exception it raised
    \* ---- distance.main: one metric phase, run once with mp on and once with mp off ----
    pairs,               \* the (a_scan, b_scan) pairs built from the directories
    phase,               \* the metric phase that runs: "euclidean", "dice" or "joint_stats"
    top,                 \* the setting top: how many pairs the report lists
    ncpu,                \* what cpu_count() returns on the machine
    mp_pc,               \* position of the run with mp = True
    queue,               \* pool: indices of the tasks not yet taken, in task order
    running,             \* pool: worker -> index of the task it runs, 0 when idle
    results,             \* pool: task index -> value returned, for the tasks done
    mp_exc,              \* the exception the run with mp = True ended with
    mp_lists,            \* the two per-item lists of the run with mp = True
    st_pc,               \* position of the run with mp = False
    st_exc,              \* the exception the run with mp = False ended with
    st_lists,            \* the two per-item lists of the run with mp = False
    mp_stats,            \* what the statistics of the run with mp = True printed
    st_stats,            \* what the statistics of the run with mp = False printed
    \* ---- measure.measure_gaps ----
    image,               \* the image: its rows, each the pixels of the columns
    horizontal_range,    \* the (start, stop) columns to run over
    gap_pc,              \* position in measure_gaps
    thresh_indices,      \* the rows (0-based) at or above the threshold, ascending
    runs,                \* the list of runs (start, stop)
    prev,                \* the row seen last
    start,               \* the local start: the first row of the run being built, in the
                         \* loop of line 138 the first row of the run looked at
    gap_k,               \* position in thresh_indices of the row the loop takes next
    gap_result,          \* what measure_gaps returned, or the exception it raised
    \* ---- measure.find_horizontal_range ----
    poly_prime,          \* the absolute gradient of the fitted polynomial, per column
    range_pc,            \* position in find_horizontal_range
    range_result,        \* what find_horizontal_range returned or raised
    \* ---- distance.main: building the pairs ----
    a_infos,             \* the *.txt files of directory a, as glob lists them
    b_infos,             \* the *.txt files of directory b, as glob lists them
    all_imgs,            \* the *.png files of the image directory, as glob lists them
    ignore_visit,        \* the setting ignore_visit
    intersection,        \* the keys found in all three lists
    pair_pc,             \* position in the pairing code
    pair_files,          \* per pair built: the files (a, b, im) it was built from
    \* ---- gui.App ----
    scans,               \* App.scans: the loaded scans
    scans_index,         \* App.scans_index (0-based)
    input_override,      \* App.input_override: ROI placement is going on
    input_override_index,\* App.input_override_index: the prompt to place next (0-based)
    autosave,            \* App.autosave
    files,               \* the opened directory: per image, the text of its info file
    written,             \* the images whose info file the GUI has written, in order
    plot,                \* the patches on the plot since the last redraw
    events,              \* how many times the main loop called a handler other than close
    gui_pc,              \* "idle", "running" until quit() is called, "closed" after
    dialogs,             \* the handlers waiting in a dialog, the one opened last at the end
    close_calls          \* how many times close was called

qof_vars == <<lines, sets, qof_pc, idx, it_patient_visit, it_max_qof_sum,
              it_max_qof_sum_idx, copies, out_dir>>

sim_vars == <<roi_size, self, other, size, call, result>>

stat_vars == <<top, mp_stats, st_stats>>

batch_vars == <<pairs, phase, ncpu, mp_pc, queue, running, results, mp_exc, mp_lists,
                st_pc, st_exc, st_lists, stat_vars>>

gap_vars == <<image, horizontal_range, gap_pc, thresh_indices, runs, prev, start, gap_k,
              gap_result>>

range_vars == <<poly_prime, range_pc, range_result>>

measure_vars == <<gap_vars, range_vars>>

pair_vars == <<a_infos, b_infos, all_imgs, ignore_visit, intersection, pair_pc, pair_files>>

gui_vars == <<scans, scans_index, input_override, input_override_index, autosave, files,
              written, plot, events, gui_pc, dialogs, close_calls>>

app_vars == <<pair_vars, gui_vars>>

vars == <<qof_vars, sim_vars, batch_vars, measure_vars, app_vars>>

(***************************************************************************)
(* Bounds of the model.                                                    *)
(***************************************************************************)
MaxRows == 4
MaxCoord == 3          \* joint centres lie in -MaxCoord .. 2 * MaxCoord
MaxJoints == 2         \* joints per scan
MaxPairs == 2          \* scan pairs of a batch comparison
MaxCpu == 3            \* cpu_count() of the machine

(***************************************************************************)
(* Strings.  A score is the text of column 1 of the table, kept as the     *)
(* sequence of its decimal digits; Python compares two str values          *)
(* character by character, a proper prefix being the smaller.              *)
(***************************************************************************)
None == "None"

\* What a call gives back: a value returned or an exception raised.
Return(v) == [exc |-> None, value |-> v]
Raise(e) == [exc |-> e, value |-> None]
NoResult == [exc |-> None, value |-> None]
\* float nan, the value of 0.0 / 0.
NaN == <<0, 0>>

RECURSIVE StrGreater(_, _)
StrGreater(a, b) ==
    IF a = <<>> THEN FALSE
    ELSE IF b = <<>> THEN TRUE
    ELSE IF Head(a) # Head(b) THEN Head(a) > Head(b)
    ELSE StrGreater(Tail(a), Tail(b))

(***************************************************************************)
(* The QOF table.  A data row holds the pts path (its file name is kept as *)
(* the sequence of its '.'-separated parts, <<patient_visit, candidate>>)  *)
(* and the score text.                                                     *)
(***************************************************************************)
ScanKeys == {"S1", "S2"}
ScoreTexts == {<<1>>, <<3>>, <<5>>, <<9>>, <<1, 0>>}

\* Row i of a table names candidate file i of its scan: "<key>.<i>.pts".
TableOf(c) == [i \in DOMAIN c |-> [pts_file |-> <<c[i][1], i>>, qof_sum |-> c[i][2]]]

\* bonefinder.py 158-163: one table line to a record of sets.
ParseLine(line) ==
    [patient_visit |-> line.pts_file[1],      \* pts_file.split('.')[0]
     pts_file      |-> line.pts_file,
     qof_sum       |-> line.qof_sum]          \* cols[1], left as text

\* s[2] > it_max_qof_sum at bonefinder.py 172: both operands are str.
QofGreater(a, b) == StrGreater(a, b)

\* shutil.copy(pts_dir / src, selection_out_dir / (key + ".pts"))
CopyCall(src, key) == [src |-> src, dst |-> <<key, "pts">>]

DoCopy(src, key) ==
    /\ copies' = Append(copies, CopyCall(src, key))
    /\ out_dir' = [d \in DOMAIN out_dir \cup {<<key, "pts">>} |->
                     IF d = <<key, "pts">> THEN src ELSE out_dir[d]]

SimIdle ==
    /\ roi_size = <<3, 2>>
    /\ self = None
    /\ other = None
    /\ size = None
    /\ call = None
    /\ result = NoResult

BatchIdle ==
    /\ pairs = <<>>
    /\ phase = None
    /\ ncpu = 1
    /\ mp_pc = "idle"
    /\ queue = <<>>
    /\ running = <<>>
    /\ results = <<>>
    /\ mp_exc = None
    /\ mp_lists = <<>>
    /\ top = 0
    /\ mp_stats = NoResult
    /\ st_stats = NoResult
    /\ st_pc = "idle"
    /\ st_exc = None
    /\ st_lists = <<>>

GapIdle ==
    /\ image = <<>>
    /\ horizontal_range = <<0, 0>>
    /\ gap_pc = "idle"
    /\ thresh_indices = <<>>
    /\ runs = <<>>
    /\ prev = None
    /\ start = None
    /\ gap_k = 0
    /\ gap_result = NoResult

RangeIdle ==
    /\ poly_prime = <<>>
    /\ range_pc = "idle"
    /\ range_result = NoResult

MeasureIdle == GapIdle /\ RangeIdle

PairIdle ==
    /\ a_infos = <<>>
    /\ b_infos = <<>>
    /\ all_imgs = <<>>
    /\ ignore_visit = FALSE
    /\ intersection = {}
    /\ pair_pc = "idle"
    /\ pair_files = <<>>

GuiIdle ==
    /\ scans = <<>>
    /\ scans_index = 0
    /\ input_override = FALSE
    /\ input_override_index = 0
    /\ autosave = FALSE
    /\ files = <<>>
    /\ written = <<>>
    /\ plot = <<>>
    /\ events = 0
    /\ gui_pc = "idle"
    /\ dialogs = <<>>
    /\ close_calls = 0

AppIdle == PairIdle /\ GuiIdle

QofIdle ==
    /\ lines = <<>>
    /\ sets = <<>>
    /\ qof_pc = "idle"
    /\ idx = 0
    /\ it_patient_visit = None
    /\ it_max_qof_sum = None
    /\ it_max_qof_sum_idx = 0
    /\ copies = <<>>
    /\ out_dir = << >>

QofInit ==
    /\ AppIdle
    /\ SimIdle
    /\ BatchIdle
    /\ MeasureIdle
    /\ \E n \in 0..MaxRows : \E c \in [1..n -> ScanKeys \X ScoreTexts] : lines = TableOf(c)
    /\ sets = <<>>
    /\ qof_pc = "read"
    /\ idx = 0
    /\ it_patient_visit = None
    /\ it_max_qof_sum = None
    /\ it_max_qof_sum_idx = 0
    /\ copies = <<>>
    /\ out_dir = << >>

\* bonefinder.py 153-163: read the table into sets.
ReadTable ==
    /\ qof_pc = "read"
    /\ sets' = [i \in 1..Len(lines) |-> ParseLine(lines[i])]
    /\ qof_pc' = "bootstrap"
    /\ UNCHANGED <<lines, idx, it_patient_visit, it_max_qof_sum,
                   it_max_qof_sum_idx, copies, out_dir>>
    /\ UNCHANGED <<sim_vars, batch_vars, measure_vars, app_vars>>

\* bonefinder.py 165-167: the first group starts at record 0; sets[0] of an
\* empty list raises IndexError.
Bootstrap ==
    /\ qof_pc = "bootstrap"
    /\ IF sets = <<>>
       THEN /\ qof_pc' = "IndexError"
            /\ UNCHANGED <<it_patient_visit, it_max_qof_sum, it_max_qof_sum_idx>>
       ELSE /\ qof_pc' = "loop"
            /\ it_patient_visit' = sets[1].patient_visit
            /\ it_max_qof_sum' = sets[1].qof_sum
            /\ it_max_qof_sum_idx' = 0
    /\ UNCHANGED <<lines, sets, idx, copies, out_dir>>
    /\ UNCHANGED <<sim_vars, batch_vars, measure_vars, app_vars>>

\* bonefinder.py 170-178: record s (at index idx) belongs to the running group.
SameGroup(s) ==
    /\ IF QofGreater(s.qof_sum, it_max_qof_sum)
       THEN /\ it_max_qof_sum' = s.qof_sum
            /\ it_max_qof_sum_idx' = idx
       ELSE UNCHANGED <<it_max_qof_sum, it_max_qof_sum_idx>>
    /\ UNCHANGED <<it_patient_visit, copies, out_dir>>

\* NewGroup without the assignment of line 185: the best index stays on the
\* group that ended.
NewGroup_StaleIdx(s) ==
    /\ DoCopy(sets[it_max_qof_sum_idx + 1].pts_file, it_patient_visit)
    /\ it_patient_visit' = s.patient_visit
    /\ it_max_qof_sum' = s.qof_sum
    /\ UNCHANGED it_max_qof_sum_idx

\* bonefinder.py 179-185: record s opens a new group; the best of the group
\* that ended is copied first.
NewGroup(s) ==
    /\ DoCopy(sets[it_max_qof_sum_idx + 1].pts_file, it_patient_visit)
    /\ it_patient_visit' = s.patient_visit
    /\ it_max_qof_sum' = s.qof_sum
    /\ it_max_qof_sum_idx' = idx

\* bonefinder.py 169-185: one iteration of the loop over sets.
LoopStep ==
    /\ qof_pc = "loop"
    /\ idx < Len(sets)
    /\ LET s == sets[idx + 1] IN
         IF s.patient_visit = it_patient_visit THEN SameGroup(s) ELSE NewGroup(s)
    /\ idx' = idx + 1
    /\ UNCHANGED <<lines, sets, qof_pc>>
    /\ UNCHANGED <<sim_vars, batch_vars, measure_vars, app_vars>>

\* FinalCopy without the copy of line 188.
FinalCopy_NoFlush ==
    /\ qof_pc = "loop"
    /\ idx = Len(sets)
    /\ qof_pc' = "done"
    /\ UNCHANGED <<lines, sets, idx, it_patient_visit, it_max_qof_sum,
                   it_max_qof_sum_idx, copies, out_dir>>
    /\ UNCHANGED <<sim_vars, batch_vars, measure_vars, app_vars>>

\* bonefinder.py 187-188: the copy for the last group, after the loop.
FinalCopy ==
    /\ qof_pc = "loop"
    /\ idx = Len(sets)
    /\ DoCopy(sets[it_max_qof_sum_idx + 1].pts_file, it_patient_visit)
    /\ qof_pc' = "done"
    /\ UNCHANGED <<lines, sets, idx, it_patient_visit, it_max_qof_sum,
                   it_max_qof_sum_idx>>
    /\ UNCHANGED <<sim_vars, batch_vars, measure_vars, app_vars>>

QofNext == ReadTable \/ Bootstrap \/ LoopStep \/ FinalCopy

SpecQof == QofInit /\ [][QofNext]_vars

(***************************************************************************)
(* scan.py: joints, masks and the comparisons of joints and scans.         *)
(* A Joint is [x, y, angle, label] with integer x and y; the model keeps   *)
(* angle 0, where cos and sin are exactly 1 and 0 and the corners of the   *)
(* rectangle are exact.  A Scan is [joints, image_size].                   *)
(***************************************************************************)
\* scan.py 20-23 (and crop.py 12-15): the ROI size, read once from the
\* section roi-size of xray-qa.cfg when the module is loaded.
WIDTH == roi_size[1]
HEIGHT == roi_size[2]

labels == <<"mcp2", "pip2", "dip2", "mcp3", "pip3", "dip3",
            "mcp4", "pip4", "dip4", "mcp5", "pip5", "dip5">>

Joint(x, y, angle, label) == [x |-> x, y |-> y, angle |-> angle, label |-> label]

\* int(h / 2) for an integer h: Python's int() truncates toward zero.
TruncHalf(h) == IF h >= 0 THEN h \div 2 ELSE 0 - ((0 - h) \div 2)

\* build_mask's convert_coordinates at angle 0: the corners (x -+ WIDTH/2,
\* y -+ HEIGHT/2), each coordinate truncated by int().
convert_coordinates(j) ==
    [left   |-> TruncHalf(2 * j.x - WIDTH),
     right  |-> TruncHalf(2 * j.x + WIDTH),
     top    |-> TruncHalf(2 * j.y - HEIGHT),
     bottom |-> TruncHalf(2 * j.y + HEIGHT)]

\* build_mask with the array np.zeros((size[0], size[1])): rows and columns
\* of the canvas exchanged.
build_mask_Transposed(j, sz) ==
    LET c == convert_coordinates(j) IN
    { p \in (0..(sz[2] - 1)) \X (0..(sz[1] - 1)) :
        /\ c.left <= p[1] /\ p[1] <= c.right
        /\ c.top <= p[2] /\ p[2] <= c.bottom }

\* The pixels <<column, row>> set to 1 in the (sz[2], sz[1]) array: fillPoly
\* fills the polygon of the four corners, its border included, clipped to
\* the array.
build_mask(j, sz) ==
    LET c == convert_coordinates(j) IN
    { p \in (0..(sz[1] - 1)) \X (0..(sz[2] - 1)) :
        /\ c.left <= p[1] /\ p[1] <= c.right
        /\ c.top <= p[2] /\ p[2] <= c.bottom }

\* ---- crop.py: angled_center_crop ----
\* An image is the pair of the source row numbers and the source column
\* numbers its pixels come from, in order: crops are taken per axis.
Image(sz) ==
    [rows |-> [k \in 1..sz[2] |-> k - 1], cols |-> [k \in 1..sz[1] |-> k - 1]]

\* A slice bound of an axis of length n, as numpy normalises it: a negative
\* bound counts from the end, and the result is clamped to 0..n.
SliceBound(i, n) ==
    IF i < 0 THEN (IF i + n < 0 THEN 0 ELSE i + n)
    ELSE IF i > n THEN n ELSE i

\* axis[lo:hi]
Slice(axis, lo, hi) ==
    LET a == SliceBound(lo, Len(axis))
        b == SliceBound(hi, Len(axis))
    IN [k \in 1..(IF b > a THEN b - a ELSE 0) |-> axis[a + k]]

\* crop.py 102-103: image[y:y + height, x:x + width]
crop(im, x, y, width, height) ==
    [rows |-> Slice(im.rows, y, y + height), cols |-> Slice(im.cols, x, x + width)]

\* crop.py 105-106; x2 and y2 are twice the centre, so that the halves of
\* line 106 stay integers until int() truncates them.
center_crop(im, x, y, width, height) ==
    crop(im, TruncHalf(2 * x - width), TruncHalf(2 * y - height), width, height)

\* crop.py 108-118 at angle 0, where z_rotate leaves the four corners in
\* place: the bounds of the axis-aligned box of the rectangle.
crop_bounds(x, y, width, height) ==
    LET start_point == <<TruncHalf(2 * x - width), TruncHalf(2 * y - height)>> IN
    [min_x |-> start_point[1], max_x |-> start_point[1] + width,
     min_y |-> start_point[2], max_y |-> start_point[2] + height]

\* crop.py 64-134 at angle 0: the set of the outcomes of the call.  No line
\* compares the box with the image.  ndimage.rotate by 0 degrees keeps the
\* shape and the pixels of a non-empty array; what it does with an array
\* that has an empty axis is left open: it returns it or it fails.
angled_center_crop(im, x, y, width, height) ==
    LET b == crop_bounds(x, y, width, height)
        temp == crop(im, b.min_x, b.min_y, b.max_x - b.min_x, b.max_y - b.min_y)
        rotated_height == Len(temp.rows)
        rotated_width == Len(temp.cols)
        center_x == TruncHalf(rotated_width)
        center_y == TruncHalf(rotated_height)
        patch == center_crop(temp, center_x, center_y, width, height)
    IN IF rotated_height = 0 \/ rotated_width = 0
       THEN {Return(patch), Raise("RuntimeError")}
       ELSE {Return(patch)}

\* Exact fractions <<numerator, denominator>> in lowest terms stand for the
\* float values.
RECURSIVE GCD(_, _)
GCD(a, b) == IF b = 0 THEN a ELSE GCD(b, a % b)
Rat(n, d) == LET g == GCD(n, d) IN <<n \div g, d \div g>>
RatAdd(p, q) == Rat(p[1] * q[2] + q[1] * p[2], p[2] * q[2])
RatGeq(p, q) == p[1] * q[2] >= q[1] * p[2]
RECURSIVE RatSum(_)
RatSum(s) == IF s = <<>> THEN <<0, 1>> ELSE RatAdd(s[1], RatSum(Tail(s)))

\* tools.dice(im1, im2, empty_score): 2 |im1 & im2| / (|im1| + |im2|), and
\* empty_score when both masks are empty.
dice(im1, im2, empty_score) ==
    LET im_sum == Cardinality(im1) + Cardinality(im2) IN
    IF im_sum = 0 THEN empty_score
    ELSE Rat(2 * Cardinality(im1 \cap im2), im_sum)

\* scan.py 239-248: the norm of (dx, dy, dangle), kept as the integer under
\* the square root.
Joint_euclidean_distance(a, b) ==
    (a.x - b.x) * (a.x - b.x) + (a.y - b.y) * (a.y - b.y)
        + (a.angle - b.angle) * (a.angle - b.angle)

\* Joint_dice_similarity with empty_score 0.0 in place of 1.0.
Joint_dice_similarity_EmptyZero(a, b, sz, kwargs) ==
    IF kwargs # {} THEN Raise("TypeError")
    ELSE Return(dice(build_mask(a, sz), build_mask(b, sz), <<0, 1>>))

\* scan.py 306-318.  kwargs: the names of the keyword arguments of the call
\* that the signature (self, other, size) does not have.
Joint_dice_similarity(a, b, sz, kwargs) ==
    IF kwargs # {} THEN Raise("TypeError")
    ELSE Return(dice(build_mask(a, sz), build_mask(b, sz), <<1, 1>>))

\* zip(self.joints, other.joints): the index range of the shorter list.
Zip(s, o) == 1..(IF Len(s.joints) <= Len(o.joints) THEN Len(s.joints) ELSE Len(o.joints))

\* Scan_euclidean_distance without the assert of line 123.
Scan_euclidean_distance_NoAssert(s, o) ==
    Return([i \in Zip(s, o) |-> Joint_euclidean_distance(s.joints[i], o.joints[i])])

\* scan.py 115-127: the sum of the joints' distances, kept as the list of the
\* integers whose square roots are summed.
Scan_euclidean_distance(s, o) ==
    IF Len(s.joints) # Len(o.joints) THEN Raise("AssertionError")
    ELSE Return([i \in Zip(s, o) |-> Joint_euclidean_distance(s.joints[i], o.joints[i])])

\* scan.py 129-141: the mean of the joints' Dice scores.  The signature is
\* (self, other): any keyword argument is a TypeError, raised before the
\* body runs.  np.divide(0.0, 0) is nan.
Scan_dice_similarity(s, o, kwargs) ==
    IF kwargs # {} THEN Raise("TypeError")
    ELSE IF Len(s.joints) # Len(o.joints) THEN Raise("AssertionError")
    ELSE LET dists == [i \in Zip(s, o) |->
                         Joint_dice_similarity(s.joints[i], o.joints[i], s.image_size, {}).value]
             total == RatSum(dists)
         IN IF Len(s.joints) = 0 THEN Return(NaN)
            ELSE Return(Rat(total[1], total[2] * Len(s.joints)))

\* ---- inputs ----
Coords == (0 - MaxCoord)..(2 * MaxCoord)
Sizes == {<<4, 3>>, <<2, 5>>, <<7, 6>>}

\* The ROI sizes (width, height) of the configuration: odd and even sides.
RoiSizes == {<<3, 2>>, <<4, 4>>}
Joints == { Joint(x, y, 0, labels[1]) : x \in Coords, y \in Coords }

\* Joint centres of the scans: two on the canvas, one whose rectangle is off it.
PoolXY == {<<1, 1>>, <<2, 1>>, <<0 - 3, 0 - 3>>}
JointLists ==
    UNION { { [i \in 1..n |-> Joint(c[i][1], c[i][2], 0, labels[i])] : c \in [1..n -> PoolXY] }
            : n \in 0..MaxJoints }
Scans == { [joints |-> js, image_size |-> sz] : js \in JointLists, sz \in Sizes }

\* Two joints and a canvas size.
JointInit ==
    /\ AppIdle
    /\ QofIdle
    /\ BatchIdle
    /\ MeasureIdle
    /\ roi_size \in RoiSizes
    /\ self \in Joints
    /\ other \in Joints
    /\ size \in Sizes
    /\ call = None
    /\ result = NoResult

\* Two scans of one image, as distance.py 65-66 builds a pair.
ScanInit ==
    /\ AppIdle
    /\ QofIdle
    /\ BatchIdle
    /\ MeasureIdle
    /\ roi_size \in RoiSizes
    /\ self \in Scans
    /\ other \in Scans
    /\ other.image_size = self.image_size
    /\ size = None
    /\ call = None
    /\ result = NoResult

\* self.euclidean_distance(other) on joints
CallJointEuclidean ==
    /\ call = None
    /\ call' = "Joint.euclidean_distance"
    /\ result' = Return(Joint_euclidean_distance(self, other))
    /\ UNCHANGED <<roi_size, self, other, size, qof_vars, batch_vars, measure_vars, app_vars>>

\* self.dice_similarity(other, size) on joints
CallJointDice ==
    /\ call = None
    /\ call' = "Joint.dice_similarity"
    /\ result' = Joint_dice_similarity(self, other, size, {})
    /\ UNCHANGED <<roi_size, self, other, size, qof_vars, batch_vars, measure_vars, app_vars>>

\* self.build_mask(size)
CallJointBuildMask ==
    /\ call = None
    /\ call' = "Joint.build_mask"
    /\ result' = Return(build_mask(self, size))
    /\ UNCHANGED <<roi_size, self, other, size, qof_vars, batch_vars, measure_vars, app_vars>>

\* crop.py 59: angled_center_crop(image, joint.x, joint.y, WIDTH, HEIGHT,
\* joint.angle) on an image of the given size.
CallAngledCenterCrop ==
    /\ call = None
    /\ call' = "angled_center_crop"
    /\ result' \in angled_center_crop(Image(size), self.x, self.y, WIDTH, HEIGHT)
    /\ UNCHANGED <<roi_size, self, other, size, qof_vars, batch_vars, measure_vars, app_vars>>

\* self.euclidean_distance(other) on scans
CallScanEuclidean ==
    /\ call = None
    /\ call' = "Scan.euclidean_distance"
    /\ result' = Scan_euclidean_distance(self, other)
    /\ UNCHANGED <<roi_size, self, other, size, qof_vars, batch_vars, measure_vars, app_vars>>

\* self.dice_similarity(other) on scans
CallScanDice ==
    /\ call = None
    /\ call' = "Scan.dice_similarity"
    /\ result' = Scan_dice_similarity(self, other, {})
    /\ UNCHANGED <<roi_size, self, other, size, qof_vars, batch_vars, measure_vars, app_vars>>

\* self.dice_similarity(other, count_over=tpr_threshold), the call of
\* distance.py 28 and 115.
CallScanDiceCountOver ==
    /\ call = None
    /\ call' = "Scan.dice_similarity(count_over)"
    /\ result' = Scan_dice_similarity(self, other, {"count_over"})
    /\ UNCHANGED <<roi_size, self, other, size, qof_vars, batch_vars, measure_vars, app_vars>>

JointNext ==
    \/ CallJointEuclidean
    \/ CallJointDice
    \/ CallJointBuildMask
    \/ CallAngledCenterCrop
ScanNext == CallScanEuclidean \/ CallScanDice \/ CallScanDiceCountOver

SpecJoint == JointInit /\ [][JointNext]_vars
SpecScan == ScanInit /\ [][ScanNext]_vars


(***************************************************************************)
(* distance.main: the per-item lists of one metric phase.  The phase is    *)
(* run twice over the same pairs, once as the branch "if mp" (a            *)
(* multiprocessing.Pool and starmap) and once as the branch "else" (the    *)
(* loop), so that the two can be compared.                                 *)
(***************************************************************************)
\* distance.py 27-28
mp_work(x, y) == Scan_dice_similarity(x, y, {"count_over"})

\* distance.py 31-32
joint_mp_work(x, y, sz) == Joint_dice_similarity(x, y, sz, {"return_name"})

\* distance.py 157-161: the joint pairs of all scan pairs, with the image size.
RECURSIVE joint_pairs(_)
joint_pairs(ps) ==
    IF ps = <<>> THEN <<>>
    ELSE LET a == ps[1][1]
             b == ps[1][2]
         IN [i \in Zip(a, b) |-> <<a.joints[i], b.joints[i], a.image_size>>]
                \o joint_pairs(Tail(ps))

\* The items the phase maps over, and the call made for one item (distance.py
\* 107 and 115, 165 and 173).
Tasks == IF phase = "joint_stats" THEN joint_pairs(pairs) ELSE pairs
Work(task) ==
    IF phase = "dice" THEN mp_work(task[1], task[2])
    ELSE joint_mp_work(task[1], task[2], task[3])

\* ---- inputs ----
ScanOf(xys) == [joints |-> [i \in 1..Len(xys) |-> Joint(xys[i][1], xys[i][2], 0, labels[i])],
                image_size |-> <<4, 3>>]
PairPool ==
    { <<ScanOf(<<<<1, 1>>>>), ScanOf(<<<<2, 1>>>>)>>,
      <<ScanOf(<<<<1, 1>>, <<2, 1>>>>), ScanOf(<<<<1, 1>>, <<1, 1>>>>)>>,
      <<ScanOf(<<>>), ScanOf(<<>>)>>,
      <<ScanOf(<<<<1, 1>>>>), ScanOf(<<>>)>> }
\* Values of the setting top: below, at and above the number of pairs.
Tops == {1, 2, 100}
PairLists == UNION { [1..n -> PairPool] : n \in 0..MaxPairs }

BatchInit ==
    /\ AppIdle
    /\ QofIdle
    /\ SimIdle
    /\ MeasureIdle
    /\ pairs \in PairLists
    /\ phase \in {"euclidean", "dice", "joint_stats"}
    /\ top \in Tops
    /\ ncpu \in 1..MaxCpu
    /\ mp_pc = (IF phase = "euclidean" THEN "unused" ELSE "start")
    /\ queue = <<>>
    /\ running = <<>>
    /\ results = <<>>
    /\ mp_exc = None
    /\ mp_lists = <<<<>>, <<>>>>
    /\ st_pc = "loop"
    /\ st_exc = None
    /\ st_lists = <<<<>>, <<>>>>
    /\ mp_stats = NoResult
    /\ st_stats = NoResult

\* distance.py 106, 164: Pool(cpu_count() - 1); Pool raises ValueError for a
\* number of processes below 1.
MpCreatePool ==
    /\ mp_pc = "start"
    /\ IF ncpu - 1 < 1
       THEN /\ mp_pc' = "raised"
            /\ mp_exc' = "ValueError"
            /\ UNCHANGED running
       ELSE /\ mp_pc' = "pool"
            /\ running' = [w \in 1..(ncpu - 1) |-> 0]
            /\ UNCHANGED mp_exc
    /\ UNCHANGED <<pairs, phase, ncpu, queue, results, mp_lists, st_pc, st_exc, st_lists,
                   qof_vars, sim_vars, stat_vars, measure_vars, app_vars>>

\* distance.py 107, 165: starmap puts the items on the pool's task queue.
MpStarmap ==
    /\ mp_pc = "pool"
    /\ queue' = [i \in 1..Len(Tasks) |-> i]
    /\ mp_pc' = "mapping"
    /\ UNCHANGED <<pairs, phase, ncpu, running, results, mp_exc, mp_lists, st_pc, st_exc,
                   st_lists, qof_vars, sim_vars, stat_vars, measure_vars, app_vars>>

\* An idle worker process takes the next item of the queue.
WorkerTake(w) ==
    /\ mp_pc = "mapping"
    /\ running[w] = 0
    /\ queue # <<>>
    /\ running' = [running EXCEPT ![w] = Head(queue)]
    /\ queue' = Tail(queue)
    /\ UNCHANGED <<pairs, phase, ncpu, mp_pc, results, mp_exc, mp_lists, st_pc, st_exc,
                   st_lists, qof_vars, sim_vars, stat_vars, measure_vars, app_vars>>

\* A worker ends its item: the value goes to the item's position of the
\* result list; an exception fails the whole starmap call.
WorkerFinish(w) ==
    /\ mp_pc = "mapping"
    /\ running[w] # 0
    /\ LET k == running[w]
           r == Work(Tasks[k])
       IN IF r.exc = None
          THEN /\ results' = [i \in DOMAIN results \cup {k} |->
                                IF i = k THEN r.value ELSE results[i]]
               /\ UNCHANGED mp_exc
          ELSE /\ mp_exc' = IF mp_exc = None THEN r.exc ELSE mp_exc
               /\ UNCHANGED results
    /\ running' = [running EXCEPT ![w] = 0]
    /\ UNCHANGED <<pairs, phase, ncpu, mp_pc, queue, mp_lists, st_pc, st_exc, st_lists,
                   qof_vars, sim_vars, stat_vars, measure_vars, app_vars>>

\* distance.py 107-109, 165-167: starmap returns the values in item order once
\* every item is done, or raises the exception of a failed item; the two
\* lists are then taken from the values.
MpStarmapReturn ==
    /\ mp_pc = "mapping"
    /\ \/ /\ mp_exc # None
          /\ mp_pc' = "raised"
          /\ UNCHANGED mp_lists
       \/ /\ mp_exc = None
          /\ DOMAIN results = 1..Len(Tasks)
          /\ mp_pc' = "collected"
          /\ mp_lists' = <<[i \in 1..Len(Tasks) |-> results[i][1]],
                           [i \in 1..Len(Tasks) |-> results[i][2]]>>
    /\ UNCHANGED <<pairs, phase, ncpu, queue, running, results, mp_exc, st_pc, st_exc,
                   st_lists, qof_vars, sim_vars, stat_vars, measure_vars, app_vars>>

\* distance.py 113-117, 171-175: one iteration of the single-threaded loop.
StLoopStep ==
    /\ st_pc = "loop"
    /\ phase # "euclidean"
    /\ Len(st_lists[1]) < Len(Tasks)
    /\ LET r == Work(Tasks[Len(st_lists[1]) + 1])
       IN IF r.exc = None
          THEN /\ st_lists' = <<Append(st_lists[1], r.value[1]),
                                Append(st_lists[2], r.value[2])>>
               /\ UNCHANGED <<st_pc, st_exc>>
          ELSE /\ st_pc' = "raised"
               /\ st_exc' = r.exc
               /\ UNCHANGED st_lists
    /\ UNCHANGED <<pairs, phase, ncpu, mp_pc, queue, running, results, mp_exc, mp_lists,
                   qof_vars, sim_vars, stat_vars, measure_vars, app_vars>>

\* The loop is over: both lists are complete.
StLoopEnd ==
    /\ st_pc = "loop"
    /\ Len(st_lists[1]) = Len(Tasks)
    /\ st_pc' = "collected"
    /\ UNCHANGED <<pairs, phase, ncpu, mp_pc, queue, running, results, mp_exc, mp_lists,
                   st_exc, st_lists, qof_vars, sim_vars, stat_vars, measure_vars, app_vars>>

(***************************************************************************)
(* distance.main: the Euclidean phase, which has the loop only, and the    *)
(* statistics printed from the collected lists.  A metric value is an      *)
(* exact fraction; the joints of the pairs lie at whole distances, so the  *)
(* square roots of a Euclidean sum are whole numbers.                      *)
(***************************************************************************)
ISqrt(n) == CHOOSE r \in 0..n : r * r = n
RECURSIVE SqrtSum(_)
SqrtSum(v) == IF v = <<>> THEN 0 ELSE ISqrt(v[1]) + SqrtSum(Tail(v))

\* distance.py 77-80: one iteration of the loop of the Euclidean phase.
EuLoopStep ==
    /\ st_pc = "loop"
    /\ phase = "euclidean"
    /\ Len(st_lists[1]) < Len(pairs)
    /\ LET pair == pairs[Len(st_lists[1]) + 1]
           r == Scan_euclidean_distance(pair[1], pair[2])
       IN IF r.exc = None
          THEN /\ st_lists' = <<Append(st_lists[1], <<SqrtSum(r.value), 1>>), st_lists[2]>>
               /\ UNCHANGED <<st_pc, st_exc>>
          ELSE /\ st_pc' = "raised"
               /\ st_exc' = r.exc
               /\ UNCHANGED st_lists
    /\ UNCHANGED <<pairs, phase, ncpu, mp_pc, queue, running, results, mp_exc, mp_lists,
                   qof_vars, sim_vars, stat_vars, measure_vars, app_vars>>

\* a < b on floats: every comparison with nan is false.
RatLess(a, b) == a # NaN /\ b # NaN /\ a[1] * b[2] < b[1] * a[2]

\* The insertion sort numpy runs on an array of at most 16 objects, comparing
\* with Python's <: position n of ds enters the order of the first n - 1
\* positions, moving left past every position whose value it is below.  A
\* comparison with nan is false, so nothing moves past a nan and a nan moves
\* past nothing.
RECURSIVE InsertionSort(_, _)
InsertionSort(ds, n) ==
    IF n = 0 THEN <<>>
    ELSE LET order == InsertionSort(ds, n - 1)
             stops == { j \in DOMAIN order : ~RatLess(ds[n], ds[order[j]]) }
             p == IF stops = {} THEN 0 ELSE CHOOSE j \in stops : \A m \in stops : m <= j
         IN SubSeq(order, 1, p) \o <<n>> \o SubSeq(order, p + 1, Len(order))

\* distance.py 85, 122: ds.argsort() of the dtype=object column, the 1-based
\* positions of ds in the order of the sort.
argsort(ds) == InsertionSort(ds, Len(ds))

\* srt[-top:][::-1]: the last top positions of the order, the last one first.
Farthest(order, n) ==
    LET m == IF n < Len(order) THEN n ELSE Len(order)
    IN [k \in 1..m |-> order[Len(order) - k + 1]]

\* srt[:top]: the first top positions of the order.
Dissimilar(order, n) ==
    SubSeq(order, 1, IF n < Len(order) THEN n ELSE Len(order))

\* np.min (low) and np.max (~low) of an object column: the reduction keeps
\* the value so far when it is <= (>=) the next one and takes the next one
\* otherwise; a comparison with nan is false.
RECURSIVE ObjectReduce(_, _, _)
ObjectReduce(sv, n, low) ==
    IF n = 1 THEN sv[1]
    ELSE LET acc == ObjectReduce(sv, n - 1, low)
             x == sv[n]
             keep == /\ acc # NaN
                     /\ x # NaN
                     /\ IF low THEN acc[1] * x[2] <= x[1] * acc[2]
                               ELSE acc[1] * x[2] >= x[1] * acc[2]
         IN IF keep THEN acc ELSE x

\* distance.py 95-98, 142-145: average, min, max and median of srt[:, 0], the
\* values in the order of the sort.  The average of a list holding nan is
\* nan, and so is the mean of two middle values when one of them is nan.
Aggregates(ds) ==
    LET n == Len(ds)
        order == argsort(ds)
        sv == [k \in 1..n |-> ds[order[k]]]
        total == RatSum(ds)
        mid == RatAdd(sv[n \div 2], sv[n \div 2 + 1])
    IN [average |-> IF \E i \in DOMAIN ds : ds[i] = NaN THEN NaN
                    ELSE Rat(total[1], total[2] * n),
        min |-> ObjectReduce(sv, n, TRUE),
        max |-> ObjectReduce(sv, n, FALSE),
        median |-> IF n % 2 = 1 THEN sv[(n + 1) \div 2]
                   ELSE IF sv[n \div 2] = NaN \/ sv[n \div 2 + 1] = NaN THEN NaN
                   ELSE Rat(mid[1], mid[2] * 2)]

\* distance.py 84-98: the report of the Euclidean phase.  The array built
\* from no pair has one dimension, and its index [:, 0] is an IndexError.
EuclideanStats(ds, n) ==
    IF ds = <<>> THEN Raise("IndexError")
    ELSE Return([top_list |-> Farthest(argsort(ds), n), aggregates |-> Aggregates(ds)])

\* The two literals 12 of distance.py 125 and 128: the joints of a hand.
JOINTS_PER_HAND == 12

RECURSIVE IntSum(_)
IntSum(s) == IF s = <<>> THEN 0 ELSE s[1] + IntSum(Tail(s))

\* distance.py 124-125
joint_tpr(joint_threshold_count, ps) ==
    Rat(IntSum(joint_threshold_count), Len(ps) * JOINTS_PER_HAND)

\* distance.py 128-129
hand_tpr(joint_threshold_count, ps) ==
    Rat(Cardinality({ i \in DOMAIN joint_threshold_count :
                        joint_threshold_count[i] = JOINTS_PER_HAND }), Len(ps))

\* distance.py 121-145: the report of the Dice phase.
DiceStats(ds, joint_threshold_count, ps, n) ==
    IF ds = <<>> THEN Raise("IndexError")
    ELSE Return([joint_tpr |-> joint_tpr(joint_threshold_count, ps),
                 hand_tpr |-> hand_tpr(joint_threshold_count, ps),
                 top_list |-> Dissimilar(argsort(ds), n),
                 aggregates |-> Aggregates(ds)])

\* distance.py 177-183: label -> number of the joint pairs of that label whose
\* Dice score is below tpr_threshold; zip stops at the shorter list.
miss_counts(d_j_dists, d_j_labels, threshold) ==
    LET n == IF Len(d_j_dists) <= Len(d_j_labels) THEN Len(d_j_dists) ELSE Len(d_j_labels)
        missed == { i \in 1..n : RatLess(d_j_dists[i], threshold) }
    IN [l \in { d_j_labels[i] : i \in missed } |->
            Cardinality({ i \in missed : d_j_labels[i] = l })]

\* tpr_threshold of distance.py 24, 0.5.
tpr_threshold == <<1, 2>>

\* What the statistics of a phase print from the two collected lists.
Statistics(lists) ==
    IF phase = "euclidean" THEN EuclideanStats(lists[1], top)
    ELSE IF phase = "dice" THEN DiceStats(lists[1], lists[2], pairs, top)
    ELSE Return([miss_counts |-> miss_counts(lists[1], lists[2], tpr_threshold)])

\* distance.py 84-98: the statistics of the Euclidean phase.
EuStatistics ==
    /\ st_pc = "collected"
    /\ phase = "euclidean"
    /\ LET r == Statistics(st_lists)
       IN IF r.exc = None
          THEN /\ st_pc' = "reported"
               /\ st_stats' = r
               /\ UNCHANGED st_exc
          ELSE /\ st_pc' = "raised"
               /\ st_exc' = r.exc
               /\ UNCHANGED st_stats
    /\ UNCHANGED <<pairs, phase, ncpu, mp_pc, queue, running, results, mp_exc, mp_lists,
                   st_lists, top, mp_stats, qof_vars, sim_vars, measure_vars, app_vars>>

\* distance.py 121-145 after the branch "if mp".
MpDiceStatistics ==
    /\ mp_pc = "collected"
    /\ phase = "dice"
    /\ LET r == Statistics(mp_lists)
       IN IF r.exc = None
          THEN /\ mp_pc' = "reported"
               /\ mp_stats' = r
               /\ UNCHANGED mp_exc
          ELSE /\ mp_pc' = "raised"
               /\ mp_exc' = r.exc
               /\ UNCHANGED mp_stats
    /\ UNCHANGED <<pairs, phase, ncpu, queue, running, results, mp_lists, st_pc, st_exc,
                   st_lists, top, st_stats, qof_vars, sim_vars, measure_vars, app_vars>>

\* distance.py 121-145 after the branch "else".
StDiceStatistics ==
    /\ st_pc = "collected"
    /\ phase = "dice"
    /\ LET r == Statistics(st_lists)
       IN IF r.exc = None
          THEN /\ st_pc' = "reported"
               /\ st_stats' = r
               /\ UNCHANGED st_exc
          ELSE /\ st_pc' = "raised"
               /\ st_exc' = r.exc
               /\ UNCHANGED st_stats
    /\ UNCHANGED <<pairs, phase, ncpu, mp_pc, queue, running, results, mp_exc, mp_lists,
                   st_lists, top, mp_stats, qof_vars, sim_vars, measure_vars, app_vars>>

\* distance.py 177-185 after the branch "if mp".
MpMissCounts ==
    /\ mp_pc = "collected"
    /\ phase = "joint_stats"
    /\ mp_pc' = "reported"
    /\ mp_stats' = Statistics(mp_lists)
    /\ UNCHANGED <<pairs, phase, ncpu, queue, running, results, mp_exc, mp_lists, st_pc,
                   st_exc, st_lists, top, st_stats, qof_vars, sim_vars, measure_vars, app_vars>>

\* distance.py 177-185 after the branch "else".
StMissCounts ==
    /\ st_pc = "collected"
    /\ phase = "joint_stats"
    /\ st_pc' = "reported"
    /\ st_stats' = Statistics(st_lists)
    /\ UNCHANGED <<pairs, phase, ncpu, mp_pc, queue, running, results, mp_exc, mp_lists,
                   st_exc, st_lists, top, mp_stats, qof_vars, sim_vars, measure_vars, app_vars>>

BatchNext ==
    \/ MpCreatePool
    \/ MpStarmap
    \/ \E w \in DOMAIN running : WorkerTake(w)
    \/ \E w \in DOMAIN running : WorkerFinish(w)
    \/ MpStarmapReturn
    \/ StLoopStep
    \/ EuLoopStep
    \/ StLoopEnd
    \/ EuStatistics
    \/ MpDiceStatistics
    \/ StDiceStatistics
    \/ MpMissCounts
    \/ StMissCounts

SpecBatch == BatchInit /\ [][BatchNext]_vars

(***************************************************************************)
(* measure.measure_gaps.  Rows and columns are numbered from 0 as in the   *)
(* code; row r of the image is image[r + 1].  Gradients are exact          *)
(* fractions.                                                              *)
(***************************************************************************)
\* measure.py 100
threshold == <<3, 5>>
\* measure.py 101
tolerance == 5

Abs(x) == IF x >= 0 THEN x ELSE 0 - x
RatMul(p, q) == Rat(p[1] * q[1], p[2] * q[2])

\* np.abs(np.gradient(col)) at row r of column c of an image of n >= 2 rows:
\* the one-sided difference at the two ends, half the difference of the two
\* neighbours inside.
abs_gradient(img, c, r) ==
    LET n == Len(img)
    IN IF r = 0 THEN <<Abs(img[2][c + 1] - img[1][c + 1]), 1>>
       ELSE IF r = n - 1 THEN <<Abs(img[n][c + 1] - img[n - 1][c + 1]), 1>>
       ELSE Rat(Abs(img[r + 2][c + 1] - img[r][c + 1]), 2)

\* np.mean(col_grads, axis=1) at row r: the mean over the columns
\* from .. to - 1 of the absolute gradient.
RECURSIVE grad_sum(_, _, _, _)
grad_sum(img, from, to, r) ==
    IF from >= to THEN <<0, 1>>
    ELSE RatAdd(abs_gradient(img, from, r), grad_sum(img, from + 1, to, r))

\* measure.py 110-113: the profile of the rows r .. of the image.
RECURSIVE grad_avg(_, _, _)
grad_avg(img, hr, r) ==
    IF r >= Len(img) THEN <<>>
    ELSE LET total == grad_sum(img, hr[1], hr[2], r)
         IN <<Rat(total[1], total[2] * (hr[2] - hr[1]))>> \o grad_avg(img, hr, r + 1)

\* np.max of a profile.
RatMax(profile) ==
    CHOOSE m \in { profile[i] : i \in DOMAIN profile } :
        \A i \in DOMAIN profile : RatGeq(m, profile[i])

\* The members of a set of rows in ascending order.
Ascend(S) ==
    [k \in 1..Cardinality(S) |-> CHOOSE x \in S : Cardinality({ y \in S : y < x }) = k - 1]

\* measure.py 114: np.argwhere(grad_avg >= np.max(grad_avg) * threshold), the
\* rows of the profile that are at or above the level, ascending.
argwhere_geq(profile, level) ==
    Ascend({ r \in 0..(Len(profile) - 1) : RatGeq(profile[r + 1], level) })

\* measure.py 136-145: the run picked from a list of at least one run.
\* range(start, end) has the rows start .. end - 1.
select_run(rs, mid) ==
    IF Len(rs) > 1
    THEN IF \E k \in DOMAIN rs : mid \in rs[k][1]..(rs[k][2] - 1)
         THEN rs[CHOOSE k \in DOMAIN rs :
                   /\ mid \in rs[k][1]..(rs[k][2] - 1)
                   /\ \A j \in 1..(k - 1) : mid \notin rs[j][1]..(rs[j][2] - 1)]
         ELSE rs[1]
    ELSE rs[1]

\* ---- inputs ----
MaxImgRows == 21       \* rows of the tallest image
MaxEdges == 4          \* intensity edges along a column
MaxWideRows == 5       \* rows of the tallest image of two columns

\* Image heights: the smallest that np.gradient accepts, and heights with
\* room for one, two and three runs.
Heights == {2, 3, 5, 13, MaxImgRows}

\* The columns of n pixels 0 or 1 with a dark top pixel and at most MaxEdges
\* changes of value (a column and its negative have the same absolute
\* gradient).
ColumnsOf(n) ==
    { [r \in 1..n |-> Cardinality({ e \in edges : e < r }) % 2] :
        edges \in { E \in SUBSET (1..(n - 1)) : Cardinality(E) <= MaxEdges } }

\* Images of one column, and of two columns for the small heights.
GapInit ==
    /\ AppIdle
    /\ QofIdle
    /\ SimIdle
    /\ BatchIdle
    /\ RangeIdle
    /\ \E n \in Heights :
         \/ /\ \E c \in ColumnsOf(n) : image = [r \in 1..n |-> <<c[r]>>]
            /\ horizontal_range = <<0, 1>>
         \/ /\ n <= MaxWideRows
            /\ \E c \in ColumnsOf(n), d \in ColumnsOf(n) :
                 image = [r \in 1..n |-> <<c[r], d[r]>>]
            /\ horizontal_range \in {<<0, 1>>, <<1, 2>>, <<0, 2>>}
    /\ gap_pc = "start"
    /\ thresh_indices = <<>>
    /\ runs = <<>>
    /\ prev = None
    /\ start = None
    /\ gap_k = 0
    /\ gap_result = NoResult

\* measure.py 107-118: the rows at or above the threshold, and the first of
\* them as prev and start; thresh_indices[0] of no row is an IndexError.
MgThreshold ==
    /\ gap_pc = "start"
    /\ LET profile == grad_avg(image, horizontal_range, 0)
           ti == argwhere_geq(profile, RatMul(RatMax(profile), threshold))
       IN /\ thresh_indices' = ti
          /\ IF ti = <<>>
             THEN /\ gap_pc' = "raised"
                  /\ gap_result' = Raise("IndexError")
                  /\ UNCHANGED <<runs, prev, start, gap_k>>
             ELSE /\ gap_pc' = "loop"
                  /\ runs' = <<>>
                  /\ prev' = ti[1]
                  /\ start' = ti[1]
                  /\ gap_k' = 2
                  /\ UNCHANGED gap_result
    /\ UNCHANGED <<image, horizontal_range, qof_vars, sim_vars, batch_vars, range_vars, app_vars>>

\* MgLoopStep with the run closed at the row that breaks it.
MgLoopStep_CloseAtIdx ==
    /\ gap_pc = "loop"
    /\ gap_k <= Len(thresh_indices)
    /\ LET row == thresh_indices[gap_k]
       IN IF row - prev > tolerance
          THEN /\ runs' = Append(runs, <<start, row>>)
               /\ start' = row
               /\ prev' = row
          ELSE /\ prev' = row
               /\ UNCHANGED <<runs, start>>
    /\ gap_k' = gap_k + 1
    /\ UNCHANGED <<image, horizontal_range, gap_pc, thresh_indices, gap_result,
                   qof_vars, sim_vars, batch_vars, range_vars, app_vars>>

\* measure.py 119-127: one iteration of "for idx in thresh_indices[1:]".
MgLoopStep ==
    /\ gap_pc = "loop"
    /\ gap_k <= Len(thresh_indices)
    /\ LET row == thresh_indices[gap_k]
       IN IF row - prev > tolerance
          THEN /\ runs' = Append(runs, <<start, prev>>)
               /\ start' = row
               /\ prev' = row
          ELSE /\ prev' = row
               /\ UNCHANGED <<runs, start>>
    /\ gap_k' = gap_k + 1
    /\ UNCHANGED <<image, horizontal_range, gap_pc, thresh_indices, gap_result,
                   qof_vars, sim_vars, batch_vars, range_vars, app_vars>>

\* measure.py 129-145, 171: after the loop, "return None" when the list of
\* runs is empty, else "return result" with the run picked with the middle
\* row image.shape[0] // 2.  With more than one run, "for start, end in
\* runs" (line 138) binds start anew: to the start of the run at which the
\* loop breaks, or of the last run when it never breaks.
MgReturn ==
    /\ gap_pc = "loop"
    /\ gap_k > Len(thresh_indices)
    /\ IF Len(runs) = 0
       THEN /\ gap_pc' = "returned None"
            /\ gap_result' = Return(None)
            /\ UNCHANGED start
       ELSE /\ gap_pc' = "returned"
            /\ gap_result' = Return(select_run(runs, Len(image) \div 2))
            /\ start' = IF Len(runs) > 1
                        THEN IF \E k \in DOMAIN runs :
                                   (Len(image) \div 2) \in runs[k][1]..(runs[k][2] - 1)
                             THEN gap_result'.value[1]
                             ELSE runs[Len(runs)][1]
                        ELSE start
    /\ UNCHANGED <<image, horizontal_range, thresh_indices, runs, prev, gap_k,
                   qof_vars, sim_vars, batch_vars, range_vars, app_vars>>

GapNext ==
    \/ MgThreshold
    \/ MgLoopStep
    \/ MgReturn

SpecGap == GapInit /\ [][GapNext]_vars

(***************************************************************************)
(* measure.find_horizontal_range, from the absolute gradient of the fitted *)
(* polynomial on: poly_prime, one value per image column, the values       *)
(* whole numbers.  Columns are numbered from 0.                            *)
(***************************************************************************)
\* measure.py 24
ignore_cols == 25

\* np.argmax of a non-empty array: the 0-based position of the first maximum.
argmax(a) ==
    (CHOOSE i \in DOMAIN a :
        /\ \A j \in DOMAIN a : a[j] <= a[i]
        /\ \A j \in 1..(i - 1) : a[j] < a[i]) - 1

\* find_horizontal_range with bone_end offset by ignore_cols alone.
find_horizontal_range_NoHalfOffset(pp) ==
    LET denoise_poly_prime == SubSeq(pp, ignore_cols + 1, Len(pp) - ignore_cols)
        half == Len(denoise_poly_prime) \div 2
        dnpp_1 == SubSeq(denoise_poly_prime, 1, half)
        dnpp_2 == SubSeq(denoise_poly_prime, half + 1, Len(denoise_poly_prime))
    IN IF dnpp_1 = <<>> \/ dnpp_2 = <<>> THEN Raise("ValueError")
       ELSE Return(<<argmax(dnpp_1) + ignore_cols, argmax(dnpp_2) + ignore_cols>>)

\* measure.py 46-56, 88: poly_prime[ignore_cols:-ignore_cols] split in two
\* halves, and the first maximum of each half as a column of the image.
\* np.argmax of an empty half is a ValueError.
find_horizontal_range(pp) ==
    LET denoise_poly_prime == SubSeq(pp, ignore_cols + 1, Len(pp) - ignore_cols)
        half == Len(denoise_poly_prime) \div 2
        dnpp_1 == SubSeq(denoise_poly_prime, 1, half)
        dnpp_2 == SubSeq(denoise_poly_prime, half + 1, Len(denoise_poly_prime))
    IN IF dnpp_1 = <<>> \/ dnpp_2 = <<>> THEN Raise("ValueError")
       ELSE Return(<<argmax(dnpp_1) + ignore_cols,
                     argmax(dnpp_2) + ignore_cols + half>>)

\* ---- inputs ----
MaxCols == 55          \* columns of the widest image
MaxPeak == 2           \* height of a peak of the gradient
MaxFiles == 2          \* names in the listing of a directory
MaxEvents == 4         \* events of the GUI other than the closing of the window
MaxCloses == 2         \* calls of close

\* Gradient profiles: 0 but for one or two peaks, over images from the
\* width of the two ignored margins up.
RangeInit ==
    /\ AppIdle
    /\ QofIdle
    /\ SimIdle
    /\ BatchIdle
    /\ GapIdle
    /\ \E num_cols \in (2 * ignore_cols)..MaxCols :
         \E p1 \in 0..(num_cols - 1), v1 \in 1..MaxPeak, v2 \in 1..MaxPeak :
           \E p2 \in p1..(num_cols - 1) :
             poly_prime = [c \in 1..num_cols |->
                             IF c = p1 + 1 THEN v1 ELSE IF c = p2 + 1 THEN v2 ELSE 0]
    /\ range_pc = "start"
    /\ range_result = NoResult

\* measure.py 45-88: the call from the gradient profile on.
FhrCall ==
    /\ range_pc = "start"
    /\ LET r == find_horizontal_range(poly_prime)
       IN /\ range_result' = r
          /\ range_pc' = IF r.exc = None THEN "returned" ELSE "raised"
    /\ UNCHANGED <<poly_prime, qof_vars, sim_vars, batch_vars, gap_vars, app_vars>>

RangeNext == FhrCall

SpecRange == RangeInit /\ [][RangeNext]_vars

(***************************************************************************)
(* distance.main, lines 45-67: the annotation files of two directories     *)
(* and the images are paired.                                              *)
(***************************************************************************)
\* A file stem <<patient, visit>> stands for the name "patient_visit".
Stems == {<<1, 0>>, <<1, 6>>, <<2, 0>>}

\* The listings glob can return: at most MaxFiles distinct names, in any order.
Listings ==
    UNION { { l \in [1..n -> Stems] : \A i, j \in 1..n : l[i] = l[j] => i = j }
            : n \in 0..MaxFiles }

\* distance.py 51-53: path.stem, or path.stem.split("_")[0] with ignore_visit.
StemKey(stem, iv) == IF iv THEN stem[1] ELSE stem

\* The elements of a list that a list comprehension with a condition keeps,
\* in the order of the list.
RECURSIVE Filter(_, _, _)
Filter(l, keys, iv) ==
    IF l = <<>> THEN <<>>
    ELSE IF StemKey(Head(l), iv) \in keys
         THEN <<Head(l)>> \o Filter(Tail(l), keys, iv)
         ELSE Filter(Tail(l), keys, iv)

\* distance.py 51-54.  With ignore_visit on, im_stems is computed from
\* b_infos (line 53), not from all_imgs.
Intersection(a, b, imgs, iv) ==
    LET a_stems == { StemKey(a[i], iv) : i \in DOMAIN a }
        b_stems == { StemKey(b[i], iv) : i \in DOMAIN b }
        im_stems == IF iv THEN { StemKey(b[i], iv) : i \in DOMAIN b }
                    ELSE { imgs[i] : i \in DOMAIN imgs }
    IN (a_stems \cap b_stems) \cap im_stems

\* zip(a, b, im) of lines 64-67: the triples up to the end of the shortest list.
Zip3(a, b, im) ==
    LET n == CHOOSE k \in {Len(a), Len(b), Len(im)} :
                 k <= Len(a) /\ k <= Len(b) /\ k <= Len(im)
    IN [i \in 1..n |-> [a |-> a[i], b |-> b[i], im |-> im[i]]]

\* The three directories as glob lists them (lines 45-47) and the setting.
PairInit ==
    /\ QofIdle
    /\ SimIdle
    /\ BatchIdle
    /\ MeasureIdle
    /\ GuiIdle
    /\ a_infos \in Listings
    /\ b_infos \in Listings
    /\ all_imgs \in Listings
    /\ ignore_visit \in BOOLEAN
    /\ intersection = {}
    /\ pair_pc = "listed"
    /\ pair_files = <<>>

\* Lines 51-58: the keys of the three lists, their intersection, and the
\* three lists filtered by it.
MainFilter ==
    /\ pair_pc = "listed"
    /\ LET keys == Intersection(a_infos, b_infos, all_imgs, ignore_visit) IN
       /\ intersection' = keys
       /\ a_infos' = Filter(a_infos, keys, ignore_visit)
       /\ b_infos' = Filter(b_infos, keys, ignore_visit)
       /\ all_imgs' = Filter(all_imgs, keys, ignore_visit)
    /\ pair_pc' = "filtered"
    /\ UNCHANGED <<ignore_visit, pair_files, qof_vars, sim_vars, batch_vars, measure_vars,
                   gui_vars>>

\* Lines 64-67: one pair per triple of the zip, both scans on the image im.
MainBuildPairs ==
    /\ pair_pc = "filtered"
    /\ pair_files' = Zip3(a_infos, b_infos, all_imgs)
    /\ pair_pc' = "paired"
    /\ UNCHANGED <<a_infos, b_infos, all_imgs, ignore_visit, intersection, qof_vars,
                   sim_vars, batch_vars, measure_vars, gui_vars>>

PairNext == MainFilter \/ MainBuildPairs

SpecPairs == PairInit /\ [][PairNext]_vars

(***************************************************************************)
(* gui.py: the annotation GUI, with the text format of scan.py's info      *)
(* files.  A text is the sequence of its characters; a field that is None  *)
(* in the code is the empty tuple <<>>, and a value v of it is <<v>>.       *)
(* An angle is kept in units of 0.05 rad, the step of the rotation keys.    *)
(***************************************************************************)
\* gui.py 18-21
prompts ==
    << <<"m", "c", "p", "2">>, <<"p", "i", "p", "2">>, <<"d", "i", "p", "2">>,
       <<"m", "c", "p", "3">>, <<"p", "i", "p", "3">>, <<"d", "i", "p", "3">>,
       <<"m", "c", "p", "4">>, <<"p", "i", "p", "4">>, <<"d", "i", "p", "4">>,
       <<"m", "c", "p", "5">>, <<"p", "i", "p", "5">>, <<"d", "i", "p", "5">> >>

\* Angles of {-0.1, -0.05, 0.0, 0.05, 0.1} rad.  Over these the float sums
\* of +-0.05 are exact: 0.1 is twice the float 0.05.
Turns == {0 - 2, 0 - 1, 0, 1, 2}

Digits == <<"0", "1", "2", "3", "4", "5", "6", "7", "8", "9">>
Whitespace == {" ", "\n"}

\* str() of a natural number and of an integer
RECURSIVE NatText(_)
NatText(n) ==
    IF n < 10 THEN <<Digits[n + 1]>>
    ELSE NatText(n \div 10) \o <<Digits[(n % 10) + 1]>>
IntText(n) == IF n < 0 THEN <<"-">> \o NatText(0 - n) ELSE NatText(n)

\* str() of the float angle: "0.0", "0.05", "0.1" and their negatives.
FloatText(k) ==
    LET mag == IF k < 0 THEN 0 - k ELSE k
        txt == IF mag = 0 THEN <<"0", ".", "0">>
               ELSE IF mag = 1 THEN <<"0", ".", "0", "5">>
               ELSE <<"0", ".", "1">>
    IN IF k < 0 THEN <<"-">> \o txt ELSE txt

\* txt.split(' '): the pieces between single spaces, empty pieces included.
RECURSIVE Split(_)
Split(txt) ==
    IF \A i \in DOMAIN txt : txt[i] # " " THEN <<txt>>
    ELSE LET i == CHOOSE k \in DOMAIN txt :
                      txt[k] = " " /\ \A m \in 1..(k - 1) : txt[m] # " "
         IN <<SubSeq(txt, 1, i - 1)>> \o Split(SubSeq(txt, i + 1, Len(txt)))

\* txt.strip()
RECURSIVE Strip(_)
Strip(txt) ==
    IF txt = <<>> THEN txt
    ELSE IF txt[1] \in Whitespace THEN Strip(Tail(txt))
    ELSE IF txt[Len(txt)] \in Whitespace THEN Strip(SubSeq(txt, 1, Len(txt) - 1))
    ELSE txt

RECURSIVE DigitsValue(_)
DigitsValue(ds) ==
    IF ds = <<>> THEN 0
    ELSE 10 * DigitsValue(SubSeq(ds, 1, Len(ds) - 1))
           + (CHOOSE d \in 0..9 : Digits[d + 1] = ds[Len(ds)])

\* int(txt): surrounding whitespace is dropped; a sign and decimal digits.
ParseInt(txt) ==
    LET t == Strip(txt)
        neg == t # <<>> /\ t[1] = "-"
        ds == IF neg THEN Tail(t) ELSE t
    IN IF ds = <<>> \/ \E i \in DOMAIN ds : \A d \in DOMAIN Digits : Digits[d] # ds[i]
       THEN Raise("ValueError")
       ELSE Return(IF neg THEN 0 - DigitsValue(ds) ELSE DigitsValue(ds))

\* float(txt) for the texts of the angles of Turns.
ParseFloat(txt) ==
    LET t == Strip(txt) IN
    IF \E k \in Turns : FloatText(k) = t
    THEN Return(CHOOSE k \in Turns : FloatText(k) = t)
    ELSE Raise("ValueError")

\* scan.py 189-237: the Rectangle of a joint.  Its corner is the point
\* (x - WIDTH/2, y - height/2), kept here as twice its coordinates, turned
\* about the centre (x, y) by the angle; the marker has height 0.
get_patch(x, y, angle, marker) ==
    LET height == IF marker THEN 0 ELSE HEIGHT IN
    [corner2 |-> <<2 * x - WIDTH, 2 * y - height>>, center |-> <<x, y>>,
     width |-> WIDTH, height |-> height, angle |-> angle]

\* scan.py 149-155: Joint.__init__
Joint_init(x, y, angle, label) ==
    [x |-> x, y |-> y, angle |-> angle, label |-> label,
     patch |-> get_patch(x, y, angle, FALSE),
     marker_patch |-> get_patch(x, y, angle, TRUE)]

\* scan.py 168-173
reload_patch(j) ==
    [j EXCEPT !.patch = get_patch(j.x, j.y, j.angle, FALSE),
              !.marker_patch = get_patch(j.x, j.y, j.angle, TRUE)]

\* save_format writing y before x.
save_format_YBeforeX(j) ==
    j.label \o <<" ">> \o IntText(j.y) \o <<" ">> \o IntText(j.x)
        \o <<" ">> \o FloatText(j.angle)

\* scan.py 161-166
save_format(j) ==
    j.label \o <<" ">> \o IntText(j.x) \o <<" ">> \o IntText(j.y)
        \o <<" ">> \o FloatText(j.angle)

\* scan.py 175-187: the statements raise in their order.
from_line(txt) ==
    LET spl == Split(txt) IN
    IF Len(spl) < 2 THEN Raise("IndexError")
    ELSE IF ParseInt(spl[2]).exc # None THEN Raise("ValueError")
    ELSE IF Len(spl) < 3 THEN Raise("IndexError")
    ELSE IF ParseInt(spl[3]).exc # None THEN Raise("ValueError")
    ELSE IF Len(spl) < 4 THEN Raise("IndexError")
    ELSE IF ParseFloat(spl[4]).exc # None THEN Raise("ValueError")
    ELSE Return(Joint_init(ParseInt(spl[2]).value, ParseInt(spl[3]).value,
                           ParseFloat(spl[4]).value, Strip(spl[1])))

\* scan.py 32-49: Scan.__init__; image_path is the number of the image.
Scan_init(joints, attribs, patient, image_path, info_path) ==
    [joints |-> joints, attribs |-> attribs, patient |-> patient,
     image_path |-> image_path, info_path |-> info_path,
     selected_joint |-> <<>>, modified |-> FALSE]

\* scan.py 59-80: fs is the directory; the info file of image i, when it
\* exists, is fs[i][1], the list of its lines.
from_files(image_path, info_path, fs) ==
    IF info_path = <<>> THEN Return(Scan_init(<<>>, <<>>, image_path, image_path, <<>>))
    ELSE IF fs[info_path[1]] = <<>> THEN Raise("FileNotFoundError")
    ELSE LET info_lines == fs[info_path[1]][1] IN
         IF info_lines = <<>> THEN Raise("IndexError")
         ELSE LET parsed == [k \in 1..(Len(info_lines) - 1) |-> from_line(info_lines[k + 1])] IN
              IF \E k \in DOMAIN parsed : parsed[k].exc # None
              THEN Raise(parsed[CHOOSE k \in DOMAIN parsed :
                                   /\ parsed[k].exc # None
                                   /\ \A m \in 1..(k - 1) : parsed[m].exc = None].exc)
              ELSE Return(Scan_init([k \in DOMAIN parsed |-> parsed[k].value],
                                    Strip(info_lines[1]), image_path, image_path, info_path))

\* scan.py 99-113: the scan after save() and the lines written to its file.
Scan_save(scan) ==
    LET attribs == IF scan.modified /\ \A i \in DOMAIN scan.attribs : scan.attribs[i] # "q"
                   THEN scan.attribs \o <<"q">> ELSE scan.attribs
        info_path == IF scan.info_path = <<>> THEN <<scan.image_path>> ELSE scan.info_path
    IN [scan |-> [scan EXCEPT !.attribs = attribs, !.info_path = info_path],
        path |-> info_path[1],
        text |-> <<attribs \o <<"\n">>>>
                   \o [k \in DOMAIN scan.joints |-> save_format(scan.joints[k]) \o <<"\n">>]]

\* ---- inputs ----
\* An info file as the tool writes it: the attribute line and the twelve
\* joints of the prompts, joint k at (10 k, 20) with angle 0.0.
InfoFile ==
    << <<<<"l", "\n">>>>
         \o [k \in DOMAIN prompts |->
               save_format(Joint_init(10 * k, 20, 0, prompts[k])) \o <<"\n">>] >>
NoFile == <<>>

\* The directories opened: per image, in the order glob lists them, its info
\* file or none.  The first one holds no image.
Directories ==
    {<<>>, <<InfoFile>>, <<NoFile>>, <<InfoFile, InfoFile>>, <<InfoFile, NoFile>>,
     <<NoFile, InfoFile>>}

\* Positions of a click (event.xdata, event.ydata), in half pixels.
ClickPoints == {<<41, 41>>, <<0 - 3, 235>>}

\* The steps of the keys w, s, a, d (gui.py 176-183)
TranslateKeys == {<<0, 0 - 10>>, <<0, 10>>, <<0 - 10, 0>>, <<10, 0>>}

\* The steps of the keys left and right (gui.py 184-187), in units of 0.05 rad
RotateKeys == {0 - 1, 1}

\* ---- the App ----
\* gui.py 113-122: the property current_scan, for a non-empty list of scans.
current_scan == scans[scans_index + 1]

\* redraw_scan (gui.py 386-403): the patches of the joints of scan index of ss.
redraw_scan(ss, index) == [k \in DOMAIN ss[index + 1].joints |-> ss[index + 1].joints[k].patch]

\* save_scan leaving the modified flag set.
save_scan_KeepsFlag(ss, fs, wr, index) ==
    IF ss[index + 1].modified
    THEN LET sv == Scan_save(ss[index + 1]) IN
         [scans |-> [ss EXCEPT ![index + 1] = sv.scan],
          files |-> [fs EXCEPT ![sv.path] = <<sv.text>>],
          written |-> Append(wr, sv.path)]
    ELSE [scans |-> ss, files |-> fs, written |-> wr]

\* gui.py 405-413: save_scan on the list of scans ss with current index index,
\* the directory fs and the log of writes wr.
save_scan(ss, fs, wr, index) ==
    IF ss[index + 1].modified
    THEN LET sv == Scan_save(ss[index + 1]) IN
         [scans |-> [ss EXCEPT ![index + 1] = [sv.scan EXCEPT !.modified = FALSE]],
          files |-> [fs EXCEPT ![sv.path] = <<sv.text>>],
          written |-> Append(wr, sv.path)]
    ELSE [scans |-> ss, files |-> fs, written |-> wr]

\* if self.autosave: self.save_scan()
autosave_scan(ss, fs, wr, index) ==
    IF autosave THEN save_scan(ss, fs, wr, index)
    ELSE [scans |-> ss, files |-> fs, written |-> wr]

\* The main loop (gui.py 580) calls a handler: the window is open and no
\* handler waits in a dialog, whose grab keeps keys, clicks, the wheel and the
\* menus from the window.
Dispatch ==
    /\ gui_pc = "running"
    /\ dialogs = <<>>
    /\ events < MaxEvents
    /\ events' = events + 1
    /\ UNCHANGED <<gui_pc, close_calls,
                   qof_vars, sim_vars, batch_vars, measure_vars, pair_vars>>

\* A handler that opens no dialog runs from its call to its return.
Handling == Dispatch /\ UNCHANGED dialogs

\* A handler waiting in a dialog is recorded by its name, the line of the call
\* of the dialog, and the local list it goes on with.  The handler whose
\* dialog is answered next is the one that opened last.
Waiting(handler, line) ==
    /\ dialogs # <<>>
    /\ dialogs[Len(dialogs)].handler = handler
    /\ dialogs[Len(dialogs)].line = line

\* The dialog returns.
Return_from_dialog == SubSeq(dialogs, 1, Len(dialogs) - 1)

\* The state after App.__init__ (gui.py 28-110), which ends by switching
\* autosave on, and the directory the user will open.
GuiInit ==
    /\ QofIdle
    /\ SimIdle
    /\ BatchIdle
    /\ MeasureIdle
    /\ PairIdle
    /\ scans = <<>>
    /\ scans_index = 0
    /\ input_override = FALSE
    /\ input_override_index = 0
    /\ autosave = TRUE
    /\ files \in Directories
    /\ written = <<>>
    /\ plot = <<>>
    /\ events = 0
    /\ gui_pc = "running"
    /\ dialogs = <<>>
    /\ close_calls = 0

\* gui.py 323-335: open_dir empties the plot and the list of scans and waits
\* in filedialog.askdirectory().
OpenDir ==
    /\ Dispatch
    /\ plot' = <<>>
    /\ scans' = <<>>
    /\ scans_index' = 0
    /\ dialogs' = Append(dialogs, [handler |-> "open_dir", line |-> 335, locals |-> <<>>])
    /\ UNCHANGED <<input_override, input_override_index, autosave, files, written>>

\* gui.py 335-347: the directory is chosen.  Every image is listed, and the
\* info files that exist; without an image or without an info file the
\* handler waits in messagebox.showerror() and returns after it, else it
\* waits in messagebox.showinfo().
OpenDirGlob ==
    /\ Waiting("open_dir", 335)
    /\ LET infos == SelectSeq([i \in DOMAIN files |-> i], LAMBDA i : files[i] # NoFile) IN
       dialogs' = Append(Return_from_dialog,
                         IF files = <<>>
                         THEN [handler |-> "open_dir", line |-> 340, locals |-> <<>>]
                         ELSE IF infos = <<>>
                         THEN [handler |-> "open_dir", line |-> 343, locals |-> <<>>]
                         ELSE [handler |-> "open_dir", line |-> 347, locals |-> infos])
    /\ UNCHANGED <<scans, scans_index, input_override, input_override_index, autosave, files,
                   written, plot, events, gui_pc, close_calls,
                   qof_vars, sim_vars, batch_vars, measure_vars, pair_vars>>

\* gui.py 347-361: a scan is appended per image, with the info file of the
\* same stem or None; a from_files that raises ends the handler, else the
\* current scan is drawn.
OpenDirLoad ==
    /\ Waiting("open_dir", 347)
    /\ LET infos == dialogs[Len(dialogs)].locals
           loaded == [i \in DOMAIN files |->
                        from_files(i, IF \E m \in DOMAIN infos : infos[m] = i
                                      THEN <<i>> ELSE <<>>, files)]
           n == Cardinality({ i \in DOMAIN files :
                                \A m \in 1..i : loaded[m].exc = None })
       IN /\ scans' = scans \o [i \in 1..n |-> loaded[i].value]
          /\ plot' = IF n = Len(files) THEN redraw_scan(scans', scans_index) ELSE plot
    /\ dialogs' = Return_from_dialog
    /\ UNCHANGED <<scans_index, input_override, input_override_index, autosave, files,
                   written, events, gui_pc, close_calls,
                   qof_vars, sim_vars, batch_vars, measure_vars, pair_vars>>

\* translate_roi that does not reload the patch of the joint.
translate_roi_NoReload(delta_x, delta_y) ==
    LET sel == current_scan.selected_joint IN
    IF sel # <<>> /\ sel[1] < Len(current_scan.joints)
    THEN LET joint == current_scan.joints[sel[1] + 1]
             moved == [joint EXCEPT !.y = joint.y + delta_y, !.x = joint.x + delta_x]
         IN /\ scans' = [scans EXCEPT ![scans_index + 1].joints[sel[1] + 1] = moved,
                                      ![scans_index + 1].modified = TRUE]
            /\ plot' = redraw_scan(scans', scans_index)
    ELSE UNCHANGED <<scans, plot>>

\* gui.py 442-458.  joints[sel] past the end of the list is an IndexError,
\* raised before anything is changed; without a selection the bell rings.
translate_roi(delta_x, delta_y) ==
    LET sel == current_scan.selected_joint IN
    IF sel # <<>> /\ sel[1] < Len(current_scan.joints)
    THEN LET joint == current_scan.joints[sel[1] + 1]
             moved == reload_patch([joint EXCEPT !.y = joint.y + delta_y,
                                                 !.x = joint.x + delta_x])
         IN /\ scans' = [scans EXCEPT ![scans_index + 1].joints[sel[1] + 1] = moved,
                                      ![scans_index + 1].modified = TRUE]
            /\ plot' = redraw_scan(scans', scans_index)
    ELSE UNCHANGED <<scans, plot>>

\* gui.py 460-475
rotate_roi(delta_theta) ==
    LET sel == current_scan.selected_joint IN
    IF sel # <<>> /\ sel[1] < Len(current_scan.joints)
    THEN LET joint == current_scan.joints[sel[1] + 1]
             moved == reload_patch([joint EXCEPT !.angle = joint.angle + delta_theta])
         IN /\ scans' = [scans EXCEPT ![scans_index + 1].joints[sel[1] + 1] = moved,
                                      ![scans_index + 1].modified = TRUE]
            /\ plot' = redraw_scan(scans', scans_index)
    ELSE UNCHANGED <<scans, plot>>

\* gui.py 477-493; new_x2 and new_y2 are twice the position, int() truncates.
move_roi(new_x2, new_y2) ==
    LET sel == current_scan.selected_joint IN
    IF sel # <<>> /\ sel[1] < Len(current_scan.joints)
    THEN LET joint == current_scan.joints[sel[1] + 1]
             moved == reload_patch([joint EXCEPT !.y = TruncHalf(new_y2),
                                                 !.x = TruncHalf(new_x2)])
         IN /\ scans' = [scans EXCEPT ![scans_index + 1].joints[sel[1] + 1] = moved,
                                      ![scans_index + 1].modified = TRUE]
            /\ plot' = redraw_scan(scans', scans_index)
    ELSE UNCHANGED <<scans, plot>>

\* Keys w, s, a, d (gui.py 176-183).  Without a scan current_scan is None and
\* the handler ends on an AttributeError with nothing changed.
OnKeyTranslate ==
    /\ Handling
    /\ scans # <<>>
    /\ \E d \in TranslateKeys : translate_roi(d[1], d[2])
    /\ UNCHANGED <<scans_index, input_override, input_override_index, autosave, files,
                   written>>

\* Keys left and right (gui.py 184-187), while the angle stays in Turns.
OnKeyRotate ==
    /\ Handling
    /\ scans # <<>>
    /\ \E d \in RotateKeys :
         /\ \A k \in DOMAIN current_scan.joints :
               current_scan.selected_joint = <<k - 1>>
                   => current_scan.joints[k].angle + d \in Turns
         /\ rotate_roi(d)
    /\ UNCHANGED <<scans_index, input_override, input_override_index, autosave, files,
                   written>>

\* Key q (gui.py 190-203): the selection moves to the next joint.
OnKeyQ ==
    /\ Handling
    /\ scans # <<>>
    /\ LET sel == current_scan.selected_joint
           next == IF sel # <<>>
                   THEN IF sel[1] < Len(current_scan.joints) - 1 THEN <<sel[1] + 1>> ELSE <<0>>
                   ELSE <<0>>
       IN scans' = [scans EXCEPT ![scans_index + 1].selected_joint = next]
    /\ UNCHANGED <<scans_index, input_override, input_override_index, autosave, files,
                   written, plot>>

\* Key e (gui.py 204-211): the next scan.
OnKeyE ==
    /\ Handling
    /\ IF scans_index < Len(scans) - 1
       THEN LET saved == autosave_scan(scans, files, written, scans_index) IN
            /\ scans' = saved.scans
            /\ files' = saved.files
            /\ written' = saved.written
            /\ scans_index' = scans_index + 1
            /\ plot' = redraw_scan(scans', scans_index')
       ELSE UNCHANGED <<scans, files, written, scans_index, plot>>
    /\ UNCHANGED <<input_override, input_override_index, autosave>>

\* gui.py 225-249: the mouse wheel.
OnScroll ==
    /\ Handling
    /\ \E button \in {"up", "down"} :
         IF /\ ~input_override
            /\ \/ button = "up" /\ scans_index > 0
               \/ button = "down" /\ scans_index < Len(scans) - 1
         THEN LET saved == autosave_scan(scans, files, written, scans_index) IN
              /\ scans' = saved.scans
              /\ files' = saved.files
              /\ written' = saved.written
              /\ scans_index' = IF button = "up" THEN scans_index - 1 ELSE scans_index + 1
              /\ plot' = redraw_scan(scans', scans_index')
         ELSE UNCHANGED <<scans, files, written, scans_index, plot>>
    /\ UNCHANGED <<input_override, input_override_index, autosave>>

\* gui.py 430-440: the scans after clear_rois.
clear_rois(ss, index) ==
    [ss EXCEPT ![index + 1].joints = <<>>,
               ![index + 1].selected_joint = <<>>,
               ![index + 1].modified = TRUE]

\* Key x or the Clear button: clear_rois.
ClearRois ==
    /\ Handling
    /\ scans # <<>>
    /\ scans' = clear_rois(scans, scans_index)
    /\ plot' = <<>>
    /\ input_override' = TRUE
    /\ input_override_index' = 0
    /\ UNCHANGED <<scans_index, autosave, files, written>>

\* Key c or the Save button: save_scan.
KeySave ==
    /\ Handling
    /\ scans # <<>>
    /\ LET saved == save_scan(scans, files, written, scans_index) IN
       /\ scans' = saved.scans
       /\ files' = saved.files
       /\ written' = saved.written
    /\ UNCHANGED <<scans_index, input_override, input_override_index, autosave, plot>>

\* find_nearest_center (gui.py 258-269): the first joint at the least
\* distance of the click; the squared distances are compared fourfold.
find_nearest_center(x2, y2) ==
    LET d(k) == (2 * current_scan.joints[k].y - y2) * (2 * current_scan.joints[k].y - y2)
                  + (2 * current_scan.joints[k].x - x2) * (2 * current_scan.joints[k].x - x2)
    IN (CHOOSE k \in DOMAIN current_scan.joints :
           /\ \A m \in DOMAIN current_scan.joints : d(k) <= d(m)
           /\ \A m \in 1..(k - 1) : d(m) > d(k)) - 1

\* gui.py 273-303: a left click on the plot selects the nearest joint, or
\* places the joint of the next prompt.
OnClickLeft ==
    /\ Handling
    /\ scans # <<>>
    /\ \E p \in ClickPoints :
         IF ~input_override /\ Len(current_scan.joints) > 0
         THEN /\ scans' = [scans EXCEPT ![scans_index + 1].selected_joint =
                                           <<find_nearest_center(p[1], p[2])>>]
              /\ UNCHANGED <<input_override, input_override_index, plot>>
         ELSE LET cleared == IF ~input_override THEN clear_rois(scans, scans_index)
                             ELSE scans
                  at == IF ~input_override THEN 0 ELSE input_override_index
                  collecting == prompts[at + 1]
                  inp == Joint_init(TruncHalf(p[1]), TruncHalf(p[2]), 0, collecting)
                  joints == Append(cleared[scans_index + 1].joints, inp)
              IN /\ scans' = [cleared EXCEPT ![scans_index + 1].joints = joints,
                                             ![scans_index + 1].selected_joint =
                                                 <<Len(joints) - 1>>]
                 /\ IF at + 1 < Len(prompts)
                    THEN /\ input_override_index' = at + 1
                         /\ input_override' = TRUE
                    ELSE /\ input_override_index' = 0
                         /\ input_override' = FALSE
                 /\ plot' = redraw_scan(scans', scans_index)
    /\ UNCHANGED <<scans_index, autosave, files, written>>

\* gui.py 304-307: a right click on the plot moves the selected joint.
OnClickRight ==
    /\ Handling
    /\ scans # <<>>
    /\ \E p \in ClickPoints :
         IF current_scan.selected_joint # <<>> THEN move_roi(p[1], p[2])
         ELSE UNCHANGED <<scans, plot>>
    /\ UNCHANGED <<scans_index, input_override, input_override_index, autosave, files,
                   written>>

\* gui.py 534-543
ToggleAutosave ==
    /\ Handling
    /\ autosave' = ~autosave
    /\ UNCHANGED <<scans, scans_index, input_override, input_override_index, files,
                   written, plot>>

\* gui.py 363-369: File > Start From... waits in simpledialog.askstring().
StartFromPrompt ==
    /\ Dispatch
    /\ dialogs' = Append(dialogs, [handler |-> "start_from_prompt", line |-> 369, locals |-> <<>>])
    /\ UNCHANGED <<scans, scans_index, input_override, input_override_index, autosave, files,
                   written, plot>>

\* gui.py 369-384: the prompt is answered.  Cancelled, it returns None and
\* patient.strip() raises; answered with a patient id, the first scan of
\* that patient becomes the current one and is drawn, and without such a
\* scan the handler waits in messagebox.showerror() and returns after it.
StartFromPromptAnswer ==
    /\ Waiting("start_from_prompt", 369)
    /\ \/ /\ dialogs' = Return_from_dialog
          /\ UNCHANGED <<scans_index, plot>>
       \/ \E patient \in 1..(Len(files) + 1) :
            IF \E k \in DOMAIN scans : scans[k].patient = patient
            THEN /\ scans_index' = (CHOOSE k \in DOMAIN scans :
                                       /\ scans[k].patient = patient
                                       /\ \A m \in 1..(k - 1) : scans[m].patient # patient) - 1
                 /\ plot' = redraw_scan(scans, scans_index')
                 /\ dialogs' = Return_from_dialog
            ELSE /\ dialogs' = Append(Return_from_dialog,
                                      [handler |-> "start_from_prompt", line |-> 381,
                                       locals |-> <<>>])
                 /\ UNCHANGED <<scans_index, plot>>
    /\ UNCHANGED <<scans, input_override, input_override_index, autosave, files, written,
                   events, gui_pc, close_calls,
                   qof_vars, sim_vars, batch_vars, measure_vars, pair_vars>>

\* gui.py 123-143: Help > Controls... waits in messagebox.showinfo().
controls_box ==
    /\ Dispatch
    /\ dialogs' = Append(dialogs, [handler |-> "controls_box", line |-> 128, locals |-> <<>>])
    /\ UNCHANGED <<scans, scans_index, input_override, input_override_index, autosave, files,
                   written, plot>>

\* gui.py 144-151: Help > About... waits in messagebox.showinfo().
about_box ==
    /\ Dispatch
    /\ dialogs' = Append(dialogs, [handler |-> "about_box", line |-> 149, locals |-> <<>>])
    /\ UNCHANGED <<scans, scans_index, input_override, input_override_index, autosave, files,
                   written, plot>>

\* The message box of controls_box (gui.py 128), of about_box (149), or an
\* error box of open_dir (340, 343) or of start_from_prompt (381) is closed,
\* and the handler returns.
MessageBoxReturn ==
    /\ dialogs # <<>>
    /\ dialogs[Len(dialogs)].line \in {128, 149, 340, 343, 381}
    /\ dialogs' = Return_from_dialog
    /\ UNCHANGED <<scans, scans_index, input_override, input_override_index, autosave, files,
                   written, plot, events, gui_pc, close_calls,
                   qof_vars, sim_vars, batch_vars, measure_vars, pair_vars>>

\* gui.py 545-550: the current scan is loaded again from its files.
DiscardChanges ==
    /\ Handling
    /\ scans # <<>>
    /\ LET loaded == from_files(current_scan.image_path, current_scan.info_path, files) IN
       IF loaded.exc = None
       THEN /\ scans' = [scans EXCEPT ![scans_index + 1] = loaded.value]
            /\ plot' = redraw_scan(scans', scans_index)
       ELSE UNCHANGED <<scans, plot>>
    /\ UNCHANGED <<scans_index, input_override, input_override_index, autosave, files,
                   written>>

\* gui.py 566: the scans that are modified, by their places in the list.
unsaved_work(ss) == SelectSeq([k \in DOMAIN ss |-> k], LAMBDA k : ss[k].modified)

\* gui.py 571-572: scan.save() for the scans of work, one after the other;
\* the flag of a scan stays as it is.
RECURSIVE save_unsaved(_, _, _, _)
save_unsaved(ss, fs, wr, work) ==
    IF work = <<>> THEN [scans |-> ss, files |-> fs, written |-> wr]
    ELSE LET sv == Scan_save(ss[Head(work)]) IN
         save_unsaved([ss EXCEPT ![Head(work)] = sv.scan], [fs EXCEPT ![sv.path] = <<sv.text>>],
                      Append(wr, sv.path), Tail(work))

\* gui.py 559-568, 574: close, called by the main loop or, while a handler
\* waits in a dialog, by the window manager (WM_DELETE_WINDOW, gui.py 579).
\* The current scan is saved when autosave is on; with no scan left modified
\* the application quits, else close waits in messagebox.askquestion().
Close ==
    /\ gui_pc = "running" \/ dialogs # <<>>
    /\ close_calls < MaxCloses
    /\ close_calls' = close_calls + 1
    /\ LET saved == IF scans # <<>> THEN autosave_scan(scans, files, written, scans_index)
                    ELSE [scans |-> scans, files |-> files, written |-> written]
           work == unsaved_work(saved.scans)
       IN /\ scans' = saved.scans
          /\ files' = saved.files
          /\ written' = saved.written
          /\ IF work = <<>>
             THEN /\ gui_pc' = "closed"
                  /\ UNCHANGED dialogs
             ELSE /\ dialogs' = Append(dialogs, [handler |-> "close", line |-> 568, locals |-> work])
                  /\ UNCHANGED gui_pc
    /\ UNCHANGED <<scans_index, input_override, input_override_index, autosave, plot, events,
                   qof_vars, sim_vars, batch_vars, measure_vars, pair_vars>>

\* gui.py 568-574: "Save?" is answered; on yes the scans found modified
\* before the question are saved as they are now, and the application quits.
CloseAnswer ==
    /\ Waiting("close", 568)
    /\ \E answer \in {"yes", "no"} :
         LET final == IF answer = "yes"
                      THEN save_unsaved(scans, files, written, dialogs[Len(dialogs)].locals)
                      ELSE [scans |-> scans, files |-> files, written |-> written]
         IN /\ scans' = final.scans
            /\ files' = final.files
            /\ written' = final.written
    /\ dialogs' = Return_from_dialog
    /\ gui_pc' = "closed"
    /\ UNCHANGED <<scans_index, input_override, input_override_index, autosave, plot, events,
                   close_calls,
                   qof_vars, sim_vars, batch_vars, measure_vars, pair_vars>>

GuiNext ==
    \/ OpenDir
    \/ OpenDirGlob
    \/ OpenDirLoad
    \/ OnKeyTranslate
    \/ OnKeyRotate
    \/ OnKeyQ
    \/ OnKeyE
    \/ OnScroll
    \/ ClearRois
    \/ KeySave
    \/ OnClickLeft
    \/ OnClickRight
    \/ ToggleAutosave
    \/ StartFromPrompt
    \/ StartFromPromptAnswer
    \/ DiscardChanges
    \/ Close
    \/ CloseAnswer
    \/ controls_box
    \/ about_box
    \/ MessageBoxReturn

SpecGui == GuiInit /\ [][GuiNext]_vars

(***************************************************************************)
(* Properties of the comparisons of scan.py.                               *)
(***************************************************************************)
\* C7: Scan.euclidean_distance and Scan.dice_similarity on two scans with
\* different numbers of joints fail with the AssertionError of the length
\* check and return no value, in particular none computed over the joints
\* the two scans have in common.
C7_ShapeMismatchFails ==
    (call \in {"Scan.euclidean_distance", "Scan.dice_similarity"}
        /\ Len(self.joints) # Len(other.joints))
    => result = Raise("AssertionError")

C7_Witness ==
    /\ call = "Scan.euclidean_distance"
    /\ Len(self.joints) = 2
    /\ Len(other.joints) = 1
    /\ result = Raise("AssertionError")

\* C8: Scan.dice_similarity called with count_over = t on two scans of equal,
\* non-zero length returns the pair (mean of the joints' Dice scores, number
\* of joints whose Dice score is >= t).
C8_CountOverReturnsPair ==
    (call = "Scan.dice_similarity(count_over)"
        /\ Len(self.joints) = Len(other.joints) /\ Len(self.joints) > 0)
    => /\ result.exc = None
       /\ result.value =
         <<Scan_dice_similarity(self, other, {}).value,
           Cardinality({ i \in 1..Len(self.joints) :
               RatGeq(Joint_dice_similarity(self.joints[i], other.joints[i],
                                            self.image_size, {}).value,
                      tpr_threshold) })>>

\* C9: Joint.dice_similarity returns a number in [0, 1]: 1.0 when both masks
\* are empty, 0.0 when the masks share no pixel and one of them is not empty.
C9_DiceRange ==
    call = "Joint.dice_similarity" =>
        LET mask_a == build_mask(self, size)
            mask_b == build_mask(other, size)
        IN /\ result.exc = None
           /\ result.value \in Nat \X (Nat \ {0})
           /\ result.value[1] <= result.value[2]
           /\ (mask_a = {} /\ mask_b = {}) => result.value = <<1, 1>>
           /\ (mask_a \cap mask_b = {} /\ mask_a \cup mask_b # {})
                 => result.value = <<0, 1>>

\* Both rectangles lie off the canvas, left of column 0 and right of the last.
C9_Witness ==
    /\ call = "Joint.dice_similarity"
    /\ convert_coordinates(self).right < 0
    /\ convert_coordinates(other).left >= size[1]
    /\ result = Return(<<1, 1>>)

\* The rectangle of the joint, before truncation, has no point left of
\* column 0 or above row 0, and its truncated corners are pixels of the canvas.
OnCanvas(j, sz) ==
    /\ 2 * j.x - WIDTH >= 0
    /\ 2 * j.y - HEIGHT >= 0
    /\ convert_coordinates(j).right <= sz[1] - 1
    /\ convert_coordinates(j).bottom <= sz[2] - 1

\* The number of pixels of the mask that build_mask returned.
MaskArea == Cardinality(result.value)

\* C21, as stated: the mask of a joint at angle 0 with integer centre whose
\* rectangle lies on the canvas has WIDTH x HEIGHT pixels up to a few: the
\* count differs from WIDTH x HEIGHT by fewer pixels than one row or one
\* column of the rectangle holds, whichever is longer.  Truncating the
\* corners moves every side by less than a pixel and cannot change more.
C21_AreaNominal ==
    (call = "Joint.build_mask" /\ OnCanvas(self, size)) =>
        /\ result.exc = None
        /\ Abs(MaskArea - WIDTH * HEIGHT) < (IF WIDTH >= HEIGHT THEN WIDTH ELSE HEIGHT)

\* C21, as the code computes it: the mask of a joint at angle 0 with integer
\* centre whose rectangle lies on the canvas is the full rectangle between
\* the truncated corners, its border included.  The corners are WIDTH
\* columns and HEIGHT rows apart, so the mask has WIDTH + 1 columns of
\* HEIGHT + 1 rows: (WIDTH + 1) x (HEIGHT + 1) pixels, which is
\* WIDTH + HEIGHT + 1 more than WIDTH x HEIGHT, for odd and for even sides.
C21_MaskArea ==
    (call = "Joint.build_mask" /\ OnCanvas(self, size)) =>
        LET c == convert_coordinates(self) IN
        /\ result.exc = None
        /\ result.value = (c.left..c.right) \X (c.top..c.bottom)
        /\ c.right - c.left = WIDTH
        /\ c.bottom - c.top = HEIGHT
        /\ MaskArea = (WIDTH + 1) * (HEIGHT + 1)
        /\ MaskArea - WIDTH * HEIGHT = WIDTH + HEIGHT + 1

\* The mask of a rectangle with odd width, whose corners int() truncates,
\* has been built on a canvas that has pixels on every side of it.
C21_Witness ==
    /\ call = "Joint.build_mask"
    /\ OnCanvas(self, size)
    /\ WIDTH % 2 = 1
    /\ convert_coordinates(self).left > 0
    /\ convert_coordinates(self).top > 0
    /\ convert_coordinates(self).right < size[1] - 1
    /\ convert_coordinates(self).bottom < size[2] - 1
    /\ result.exc = None
    /\ MaskArea = (WIDTH + 1) * (HEIGHT + 1)
    /\ MaskArea < size[1] * size[2]

\* The box of crop.py 114-118 has a negative bound or ends past the image.
BoxOutside(j, sz) ==
    LET b == crop_bounds(j.x, j.y, WIDTH, HEIGHT) IN
    b.min_x < 0 \/ b.min_y < 0 \/ b.max_x > sz[1] \/ b.max_y > sz[2]

\* C22: angled_center_crop of a rectangle whose box is not inside the image
\* fails; it returns no patch.
C22_OutOfBoundsFails ==
    (call = "angled_center_crop" /\ BoxOutside(self, size)) => result.exc # None

(***************************************************************************)
(* Properties of the batch comparison.                                     *)
(***************************************************************************)
\* C10: over the same pairs the run with the worker pool and the run with the
\* single-threaded loop end alike, with per-item lists of the same length and
\* the same value at every position, whatever the order in which the workers
\* end their items.
C10_SameListsBothModes ==
    (mp_pc \in {"collected", "raised"} /\ st_pc \in {"collected", "raised"})
    => /\ mp_pc = st_pc
       /\ mp_exc = st_exc
       /\ mp_lists = st_lists

\* C11: the worker pool is created with max(1, parallelism - 1) processes:
\* for every parallelism of at least 1, a single-CPU host included, the pool
\* has at least one process and its creation does not fail.
C11_PoolSizeAtLeastOne ==
    mp_pc \notin {"idle", "unused", "start"}
    => /\ ~(mp_pc = "raised" /\ mp_exc = "ValueError")
       /\ Len(running) = (IF ncpu - 1 > 1 THEN ncpu - 1 ELSE 1)

(***************************************************************************)
(* Properties of the statistics of distance.main, stated for the run       *)
(* with mp = False.                                                        *)
(***************************************************************************)
\* The positions of ds by descending value, resp. by ascending value, the
\* earlier position first among equal values.
Descending(ds) ==
    LET rank(i) == 1 + Cardinality({ j \in DOMAIN ds :
                          RatLess(ds[i], ds[j]) \/ (ds[j] = ds[i] /\ j < i) })
    IN [k \in 1..Len(ds) |-> CHOOSE i \in DOMAIN ds : rank(i) = k]
Ascending(ds) ==
    LET rank(i) == 1 + Cardinality({ j \in DOMAIN ds :
                          RatLess(ds[j], ds[i]) \/ (ds[j] = ds[i] /\ j < i) })
    IN [k \in 1..Len(ds) |-> CHOOSE i \in DOMAIN ds : rank(i) = k]
FirstN(order, n) == SubSeq(order, 1, IF n < Len(order) THEN n ELSE Len(order))

\* C12: the report lists the top pairs with the largest Euclidean sums in
\* descending order, resp. the top pairs with the smallest Dice means in
\* ascending order; among pairs of equal value the pair that comes earlier in
\* the pair list is listed first, and is the one kept at the cut-off.
C12_TopListOrder ==
    st_pc = "reported"
    => /\ phase = "euclidean"
          => st_stats.value.top_list = FirstN(Descending(st_lists[1]), top)
       /\ phase = "dice"
          => st_stats.value.top_list = FirstN(Ascending(st_lists[1]), top)

\* The joints of a pair whose Dice score is at or above tpr_threshold.
Meeting(pair) ==
    { i \in Zip(pair[1], pair[2]) :
        RatGeq(dice(build_mask(pair[1].joints[i], pair[1].image_size),
                    build_mask(pair[2].joints[i], pair[1].image_size), <<1, 1>>),
               tpr_threshold) }
Comparable(ps) == \A k \in DOMAIN ps : Len(ps[k][1].joints) = Len(ps[k][2].joints)
TotalJoints(ps) == IntSum([k \in DOMAIN ps |-> Len(ps[k][1].joints)])

\* C13: for a non-empty corpus of comparable pairs, whatever the number of
\* joints of a scan, the Dice phase reports joint TPR = (joints meeting the
\* threshold) / (joints) and hand TPR = (pairs all of whose joints meet the
\* threshold) / (pairs), both between 0 and 1.
C13_TprRatios ==
    (/\ phase = "dice"
     /\ pairs # <<>>
     /\ Comparable(pairs)
     /\ TotalJoints(pairs) > 0
     /\ st_pc \in {"reported", "raised"})
    => /\ st_pc = "reported"
       /\ st_stats.value.joint_tpr =
             Rat(IntSum([k \in DOMAIN pairs |-> Cardinality(Meeting(pairs[k]))]),
                 TotalJoints(pairs))
       /\ st_stats.value.hand_tpr =
             Rat(Cardinality({ k \in DOMAIN pairs :
                                 Meeting(pairs[k]) = DOMAIN pairs[k][1].joints }),
                 Len(pairs))
       /\ RatGeq(<<1, 1>>, st_stats.value.joint_tpr)
       /\ RatGeq(<<1, 1>>, st_stats.value.hand_tpr)

\* C14: an empty pair list is handled: the Euclidean and the Dice phase end
\* their statistics without a division by zero and without an exception of
\* indexing or reducing an empty array.
C14_EmptyPairListHandled ==
    (/\ pairs = <<>>
     /\ phase \in {"euclidean", "dice"}
     /\ st_pc \in {"reported", "raised"})
    => st_pc = "reported"

\* The joint pairs whose Dice score is below tpr_threshold.
Missed ==
    LET jp == joint_pairs(pairs)
    IN { i \in DOMAIN jp :
           ~RatGeq(dice(build_mask(jp[i][1], jp[i][3]), build_mask(jp[i][2], jp[i][3]),
                        <<1, 1>>), tpr_threshold) }

\* C15: after the joint-statistics phase miss_counts maps a label L to the
\* number of joint pairs whose first joint has label L and whose Dice score is
\* below the threshold, a label without such a pair is absent, and the miss
\* counts and the joint pairs at or above the threshold add up to the number
\* of joint pairs.
C15_MissCounts ==
    (phase = "joint_stats" /\ st_pc \in {"reported", "raised"})
    => /\ st_pc = "reported"
       /\ LET jp == joint_pairs(pairs)
              mc == st_stats.value.miss_counts
          IN /\ mc = [l \in { jp[i][1].label : i \in Missed } |->
                        Cardinality({ i \in Missed : jp[i][1].label = l })]
             /\ IntSum([k \in DOMAIN labels |->
                          IF labels[k] \in DOMAIN mc THEN mc[labels[k]] ELSE 0])
                  + (Len(jp) - Cardinality(Missed)) = Len(jp)

(***************************************************************************)
(* Properties of measure_gaps.                                             *)
(***************************************************************************)
GapEnded == gap_pc \in {"returned None", "returned", "raised"}

\* The rows at or above the threshold, grouped: a row that follows the row
\* before it by more than the tolerance starts a group.
GroupStarts ==
    { thresh_indices[k] : k \in { i \in DOMAIN thresh_indices :
          i = 1 \/ thresh_indices[i] - thresh_indices[i - 1] > tolerance } }
GroupEnds ==
    { thresh_indices[k] : k \in { i \in DOMAIN thresh_indices :
          i = Len(thresh_indices) \/ thresh_indices[i + 1] - thresh_indices[i] > tolerance } }
Groups ==
    [j \in 1..Cardinality(GroupStarts) |-> <<Ascend(GroupStarts)[j], Ascend(GroupEnds)[j]>>]
ThresholdRows == { thresh_indices[k] : k \in DOMAIN thresh_indices }

\* C16: measure_gaps returns None exactly when no row of the averaged
\* gradient profile is at or above the threshold, as a value and without
\* raising; with at least one such row it returns a run (start, end).
C16_NoneOnlyWithoutThresholdRows ==
    GapEnded
    => /\ gap_pc # "raised"
       /\ (gap_pc = "returned None") <=> (ThresholdRows = {})
       /\ ThresholdRows # {}
          => /\ gap_pc = "returned"
             /\ gap_result.value[1] \in ThresholdRows
             /\ gap_result.value[2] \in ThresholdRows
             /\ gap_result.value[1] <= gap_result.value[2]

\* C17: every row at or above the threshold belongs to exactly one run of
\* the list of runs, the rows of the last run included; when all the rows
\* form one run, measure_gaps returns (first such row, last such row).
C17_EveryRowInOneRun ==
    gap_pc \in {"returned None", "returned"}
    => /\ \A row \in ThresholdRows :
             Cardinality({ k \in DOMAIN runs : runs[k][1] <= row /\ row <= runs[k][2] }) = 1
       /\ Len(Groups) = 1
          => /\ gap_pc = "returned"
             /\ gap_result.value = <<thresh_indices[1], thresh_indices[Len(thresh_indices)]>>

\* C18: with more than one run, the run returned is the first run whose rows
\* start .. end, both included, contain the middle row image.shape[0] // 2,
\* and the first run when no run contains it; so too when the middle row lies
\* in the last run or is the end row of a run.
C18_MidpointRun ==
    (gap_pc \in {"returned None", "returned"} /\ Len(Groups) > 1)
    => /\ gap_pc = "returned"
       /\ LET mid == Len(image) \div 2
              holds(k) == Groups[k][1] <= mid /\ mid <= Groups[k][2]
          IN gap_result.value =
                IF \E k \in DOMAIN Groups : holds(k)
                THEN Groups[CHOOSE k \in DOMAIN Groups :
                               holds(k) /\ \A j \in 1..(k - 1) : ~holds(j)]
                ELSE Groups[1]

\* The runs built so far, while the loop runs and when it has ended: the
\* list and the run (start, prev) being built.
Built == Append(runs, <<start, prev>>)

FirstMaxCol(lo, hi) ==
    CHOOSE c \in lo..(hi - 1) :
        /\ \A d \in lo..(hi - 1) : poly_prime[d + 1] <= poly_prime[c + 1]
        /\ \A d \in lo..(c - 1) : poly_prime[d + 1] < poly_prime[c + 1]

\* C20: for a gradient profile over num_cols > 2 * ignore_cols + 1 columns,
\* with n = num_cols - 2 * ignore_cols, bone_start is the first column of
\* greatest gradient in [ignore_cols, ignore_cols + n \div 2) and bone_end the
\* first column of greatest gradient in [ignore_cols + n \div 2,
\* num_cols - ignore_cols); hence ignore_cols <= bone_start < bone_end <
\* num_cols - ignore_cols.
C20_RangeIndexMapping ==
    (range_pc \in {"returned", "raised"} /\ Len(poly_prime) > 2 * ignore_cols + 1)
    => /\ range_pc = "returned"
       /\ LET num_cols == Len(poly_prime)
              n == num_cols - 2 * ignore_cols
              bone_start == range_result.value[1]
              bone_end == range_result.value[2]
          IN /\ bone_start = FirstMaxCol(ignore_cols, ignore_cols + n \div 2)
             /\ bone_end = FirstMaxCol(ignore_cols + n \div 2, num_cols - ignore_cols)
             /\ ignore_cols <= bone_start
             /\ bone_start < bone_end
             /\ bone_end < num_cols - ignore_cols

\* A call on a profile whose greatest gradient of either half is past the
\* first column of the half.
C20_Witness ==
    /\ range_pc = "returned"
    /\ Len(poly_prime) > 2 * ignore_cols + 1
    /\ range_result.value[1] > ignore_cols
    /\ range_result.value[2] > ignore_cols + (Len(poly_prime) - 2 * ignore_cols) \div 2

(***************************************************************************)
(* Properties of the pairing of distance.main.                             *)
(***************************************************************************)
\* C30: every pair is built from an annotation file of a, one of b and an
\* image that have the same key: the file stem, or the patient id when
\* ignore_visit is on.
C30_PairsShareKey ==
    pair_pc = "paired" =>
        \A i \in DOMAIN pair_files :
            /\ StemKey(pair_files[i].a, ignore_visit) = StemKey(pair_files[i].b, ignore_visit)
            /\ StemKey(pair_files[i].a, ignore_visit) = StemKey(pair_files[i].im, ignore_visit)

(***************************************************************************)
(* Properties of the annotation GUI and of the info files.                 *)
(***************************************************************************)
\* What an info file holds of a scan: the attribute string and, per joint,
\* (label, x, y, angle).
Annotation(scan) ==
    [attribs |-> scan.attribs,
     joints |-> [k \in DOMAIN scan.joints |->
                   <<scan.joints[k].label, scan.joints[k].x, scan.joints[k].y,
                     scan.joints[k].angle>>]]

\* Scan.from_files of image i and its info file, as the directory is now.
Reloaded(i) == from_files(i, <<i>>, files)

\* C23: whenever a scan is saved, Scan.from_files of the file just written
\* yields the joints of the scan, with the same (label, x, y, angle) at every
\* index, and its attribute string.
C23_SaveLoadRoundTrip ==
    [][\A n \in (Len(written) + 1)..Len(written') :
          \A loaded \in {from_files(written'[n], <<written'[n]>>, files')} :
              /\ loaded.exc = None
              /\ \A k \in DOMAIN scans' :
                    scans'[k].image_path = written'[n]
                        => Annotation(loaded.value) = Annotation(scans'[k])]_vars

\* A scan of twelve joints, one of them at a negative x, has been saved and
\* its file reads back as the scan.
C23_Witness ==
    \E k \in DOMAIN scans :
        /\ \E n \in DOMAIN written : written[n] = scans[k].image_path
        /\ ~scans[k].modified
        /\ Len(scans[k].joints) = Len(prompts)
        /\ \E j \in DOMAIN scans[k].joints : scans[k].joints[j].x < 0
        /\ \A loaded \in {Reloaded(scans[k].image_path)} :
              /\ loaded.exc = None
              /\ Annotation(loaded.value) = Annotation(scans[k])

\* C24: every info file the GUI has written holds the twelve labels of the
\* prompts, in their order, one joint line each.
C24_WrittenFilesCanonical ==
    \A n \in DOMAIN written :
        \A loaded \in {Reloaded(written[n])} :
            /\ loaded.exc = None
            /\ [k \in DOMAIN loaded.value.joints |-> loaded.value.joints[k].label] = prompts

\* C25: the patch and the marker patch of every joint of every loaded scan
\* are the ones computed from its x, y and angle, and the patches on the plot
\* are those of the joints of the current scan.
C25_PatchesCurrent ==
    /\ \A i \in DOMAIN scans : \A k \in DOMAIN scans[i].joints :
          LET joint == scans[i].joints[k] IN
          /\ joint.patch = get_patch(joint.x, joint.y, joint.angle, FALSE)
          /\ joint.marker_patch = get_patch(joint.x, joint.y, joint.angle, TRUE)
    /\ scans # <<>> =>
          plot = [k \in DOMAIN current_scan.joints |->
                    get_patch(current_scan.joints[k].x, current_scan.joints[k].y,
                              current_scan.joints[k].angle, FALSE)]

\* A joint of the current scan that was loaded from a file has been moved
\* and turned, and its patch on the plot is the one of its new place.
C25_Witness ==
    /\ scans # <<>>
    /\ current_scan.modified
    /\ \E k \in DOMAIN current_scan.joints :
          /\ current_scan.joints[k].label = prompts[k]
          /\ current_scan.joints[k].x # 10 * k
          /\ current_scan.joints[k].angle # 0
          /\ plot[k] = get_patch(current_scan.joints[k].x, current_scan.joints[k].y,
                                 current_scan.joints[k].angle, FALSE)

\* C26: save_scan on a modified scan writes its file, with the scan as it is
\* after the call; on an unmodified scan it writes nothing and changes no
\* scan.  In both cases the current scan is unmodified afterwards and no
\* other scan and no other file has changed.
C26_SaveIffModified ==
    [][KeySave =>
          /\ current_scan.modified =>
                /\ written' = Append(written, current_scan.image_path)
                /\ files'[current_scan.image_path] = <<Scan_save(current_scan).text>>
          /\ ~current_scan.modified =>
                /\ written' = written
                /\ files' = files
                /\ scans' = scans
          /\ ~scans'[scans_index + 1].modified
          /\ \A k \in DOMAIN scans : k # scans_index + 1 => scans'[k] = scans[k]
          /\ \A i \in DOMAIN files : i # current_scan.image_path => files'[i] = files[i]]_vars

\* The current scan, whose joints were moved, has been saved once and is
\* unmodified.
C26_Witness ==
    /\ scans # <<>>
    /\ written = <<current_scan.image_path>>
    /\ ~current_scan.modified
    /\ Len(current_scan.joints) = Len(prompts)
    /\ \E k \in DOMAIN current_scan.joints : current_scan.joints[k].x # 10 * k
    /\ files[current_scan.image_path] # InfoFile

\* C27: with autosave on, an event that changes the index of the current
\* scan leaves the scan it departs from unmodified.
C27_AutosaveOnNavigation ==
    [][(autosave /\ autosave' /\ scans_index' # scans_index /\ Len(scans') = Len(scans))
          => ~scans'[scans_index + 1].modified]_vars

\* C28: during ROI placement the joints of the current scan are the first
\* input_override_index prompts, in order, and no scan has more joints than
\* there are prompts.
C28_PlacementMode ==
    /\ (input_override /\ scans # <<>>) =>
          [k \in DOMAIN current_scan.joints |-> current_scan.joints[k].label]
              = SubSeq(prompts, 1, input_override_index)
    /\ \A i \in DOMAIN scans : Len(scans[i].joints) <= Len(prompts)

\* C29: the selected joint of every scan is None or an index of its joints.
C29_SelectionInRange ==
    \A i \in DOMAIN scans :
        \/ scans[i].selected_joint = <<>>
        \/ /\ 0 <= scans[i].selected_joint[1]
           /\ scans[i].selected_joint[1] < Len(scans[i].joints)

(***************************************************************************)
(* Properties of select_qof.                                               *)
(***************************************************************************)
\* The number a score text denotes: the scores compared as numbers.
RECURSIVE NumVal(_)
NumVal(d) == IF d = <<>> THEN 0 ELSE 10 * NumVal(SubSeq(d, 1, Len(d) - 1)) + d[Len(d)]

\* The maximal runs of equal patient_visit in sets, numbered from 1.
RunId(i) == 1 + Cardinality({ j \in 2..i : sets[j].patient_visit # sets[j - 1].patient_visit })
NumRuns == IF sets = <<>> THEN 0 ELSE RunId(Len(sets))
RunMembers(r) == { i \in 1..Len(sets) : RunId(i) = r }
RunKey(r) == sets[CHOOSE i \in RunMembers(r) : TRUE].patient_visit
\* All records of one scan key are contiguous.
Contiguous ==
    \A i, j \in 1..Len(sets) :
        sets[i].patient_visit = sets[j].patient_visit => RunId(i) = RunId(j)
\* The records of run r whose score is the greatest of the run, as numbers.
NumericBest(r) ==
    { i \in RunMembers(r) :
        \A j \in RunMembers(r) : NumVal(sets[i].qof_sum) >= NumVal(sets[j].qof_sum) }
Min(S) == CHOOSE m \in S : \A n \in S : m <= n

\* C1: on contiguous input, the record copied for each scan key group is one
\* whose score is the greatest of the group when scores are compared as numbers.
C1_CopiesNumericBest ==
    (qof_pc = "done" /\ Contiguous) =>
        \A r \in 1..NumRuns :
            /\ r <= Len(copies)
            /\ \E i \in NumericBest(r) : copies[r].src = sets[i].pts_file

\* C2: on contiguous input the copies made so far are one per finished run, in
\* run order, each to <run key>.pts and from a file of a record of that run;
\* when select_qof has ended there is exactly one copy per run.
C2_OneCopyPerRun ==
    (qof_pc \in {"loop", "done"} /\ Contiguous) =>
        /\ Len(copies) <= NumRuns
        /\ qof_pc = "done" => Len(copies) = NumRuns
        /\ \A r \in 1..Len(copies) :
              /\ copies[r].dst = <<RunKey(r), "pts">>
              /\ \E i \in RunMembers(r) : copies[r].src = sets[i].pts_file

C2_Witness ==
    /\ qof_pc = "done"
    /\ Contiguous
    /\ NumRuns = 2
    /\ Cardinality(RunMembers(1)) = 2
    /\ Cardinality(RunMembers(2)) = 2
    /\ Len(copies) = 2

\* C3: the last group is emitted by the copy after the loop: while the loop
\* runs the group being scanned has no copy yet, the copy after the loop is
\* always possible once the loop is over, and at the end the last copy is the
\* one of the last run; a one-record input ends with exactly one copy, of
\* that record.
C3_LastGroupFlushed ==
    /\ qof_pc = "loop" =>
          /\ Len(copies) < NumRuns
          /\ idx = Len(sets) => ENABLED FinalCopy
    /\ qof_pc = "done" =>
          /\ Len(copies) = NumRuns
          /\ copies[NumRuns].dst = <<sets[Len(sets)].patient_visit, "pts">>
          /\ \E i \in RunMembers(NumRuns) : copies[NumRuns].src = sets[i].pts_file
          /\ Len(sets) = 1 => copies = <<CopyCall(lines[1].pts_file, lines[1].pts_file[1])>>

C3_Witness ==
    /\ qof_pc = "done"
    /\ Len(sets) = 1
    /\ copies = <<CopyCall(<<"S1", 1>>, "S1")>>

\* C4: when several records of one group share the greatest score, the one
\* that comes first in the input is the one copied.
C4_FirstOfGreatest ==
    (qof_pc = "done" /\ Contiguous) =>
        \A r \in 1..NumRuns :
            Cardinality(NumericBest(r)) > 1 =>
                copies[r].src = sets[Min(NumericBest(r))].pts_file

\* C5: a scan key whose records are not all in one run never gets a copy (a
\* selection made from part of its records); the input is rejected instead.
C5_NoPartialSelection ==
    \A c \in 1..Len(copies) :
        \A i, j \in 1..Len(sets) :
            (sets[i].patient_visit = copies[c].dst[1] /\ sets[j].patient_visit = copies[c].dst[1])
                => RunId(i) = RunId(j)

\* C6: a table without data rows ends select_qof normally with no copy made,
\* not with the IndexError of sets[0].
C6_EmptyTableHandled ==
    (lines = <<>> /\ qof_pc \notin {"read", "bootstrap"}) =>
        (qof_pc = "done" /\ copies = <<>>)

====
